---- MODULE Spec2Model ----
(***************************************************************************)
(* A model of the send side of the QUIC transport in this repository:      *)
(* the per-stream write buffers of quic/state/StreamData.h and the         *)
(* bookkeeping that quic/api/QuicTransportFunctions.cpp does for every     *)
(* packet written (updateConnection and the functions it calls, the write  *)
(* loop and the probe writer).                                             *)
(*                                                                         *)
(* Byte buffers are modelled by their lengths: a buffer entry is a record  *)
(* [offset, len, eof] and stands for the stream bytes                      *)
(* offset .. offset+len-1.  Statistics counters that no decision of the    *)
(* code reads (numPacketsTxWithNewData, totalBytesRetransmitted, ...) are  *)
(* left out.  Streams here are never backed by DSR, so writeBufMeta.offset *)
(* stays 0; the BufMeta loss list is modelled on its own (lossBufMetas).   *)
(* The frame schedulers, the ACK and loss visitors and the flow-control    *)
(* helpers are not part of the source tree at hand; their definitions are  *)
(* marked as such where they appear.                                       *)
(***************************************************************************)
EXTENDS Integers, Sequences, FiniteSets, TLC

VARIABLES
    conn,       \* QuicConnectionStateBase: streams, flow control, ack states, outstandings
    hist,       \* what the environment has done so far (the losses it has declared)
    lossBuf,    \* a QuicStreamLike::lossBuffer driven directly (insertIntoLossBuffer)
    lossBufMetas \* a QuicStreamState::lossBufMetas driven directly (insertIntoLossBufMeta)

vars == <<conn, hist, lossBuf, lossBufMetas>>

-----------------------------------------------------------------------------
(* Bounds of the model *)

\* total number of bytes the application writes, over all streams
MaxAppBytes == 2
\* packets written by the write loop and the probe writer
MaxPackets == 3
\* loss declarations
MaxLosses == 2
\* packets written in the packet-number-space model
MaxCtlPackets == 3
\* end of the offset range segments are drawn from in the loss-buffer model
MaxLossOffset == 4
MaxKeyPackets == 4
\* transportSettings.keyUpdatePacketCountInterval
keyUpdatePacketCountInterval == 1
\* transportSettings.writeConnectionDataPacketsLimit
writeConnectionDataPacketsLimit == 2
\* conn.udpSendPacketLen, and the size of a close packet, in units of bytes
udpSendPacketLen == 6
ClosePacketLen == 1
\* bytes the server receives, probe writes the amplification limit stops and
\* packets the server writes in the server model
MaxBytesReceived == 2
MaxProbesLimited == 1
MaxSrvPackets == 2
\* sequence numbers of the connection IDs the server creates, and the largest
\* active_connection_id_limit a peer announces
MaxConnIdSequence == 3
MaxPeerActiveConnectionIdLimit == 4
\* state transitions of the congestion controller
MaxBbrTransitions == 5
MaxInflight == 12
MaxLossEventsInRound == 7
MaxBbrEvents == 2
MaxAckBlocks == 3

-----------------------------------------------------------------------------
(* Vocabulary *)

StreamIds == {0, 4}

FirstStream == {0}

Spaces == {"Initial", "Handshake", "AppData"}

None == 0 - 1

NoFault == "none"

Min(a, b) == IF a < b THEN a ELSE b

Max(a, b) == IF a < b THEN b ELSE a

\* A written frame.  For frames other than STREAM only the type matters.
Frame(type, streamId, offset, len, fin) ==
    [type |-> type, streamId |-> streamId, offset |-> offset, len |-> len, fin |-> fin]

CtlFrame(type) == Frame(type, None, 0, 0, FALSE)

\* The stream positions a buffer entry stands for.  The FIN of a stream is the
\* position one past its last byte (finalWriteOffset).
DataBytes(e) == e.offset .. (e.offset + e.len - 1)

Positions(e) == DataBytes(e) \cup (IF e.eof THEN {e.offset + e.len} ELSE {})

SeqToSet(q) == {q[i] : i \in 1..Len(q)}

InsertAt(q, i, x) == SubSeq(q, 1, i - 1) \o <<x>> \o SubSeq(q, i, Len(q))

RemoveAt(q, i) == SubSeq(q, 1, i - 1) \o SubSeq(q, i + 1, Len(q))

-----------------------------------------------------------------------------
(* QuicStreamLike / QuicStreamState *)

NewStream ==
    [ pendingWrites |-> 0,
      currentWriteOffset |-> 0,
      finalWriteOffset |-> None,
      retransmissionBuffer |-> {},
      lossBuffer |-> <<>>,
      ackedIntervals |-> {},
      peerAdvertisedMaxOffset |-> 0,
      deliveredBytes |-> 0,
      fault |-> NoFault ]

\* QuicStreamLike::updateAckedIntervals.  ackedIntervals is the set of
\* positions its intervals cover; insert(a, b) adds a..b.
UpdateAckedIntervalsSwapped(st, offset, len, eof) ==
    LET lenAdjustment == IF eof THEN 1 ELSE 0
    IN  [st EXCEPT !.ackedIntervals = @ \cup (offset .. (offset + len - lenAdjustment))]

UpdateAckedIntervals(st, offset, len, eof) ==
    LET lenAdjustment == IF eof THEN 0 ELSE 1
    IN  IF lenAdjustment = 1 /\ len = 0
        THEN [st EXCEPT !.fault = "fatal"]
        ELSE [st EXCEPT !.ackedIntervals = @ \cup (offset .. (offset + len - lenAdjustment))]

\* std::upper_bound over the loss buffer: the first index whose offset is
\* greater than the given one (Len+1 when there is none).
UpperBound(buffer, offset) ==
    LET later == {i \in 1..Len(buffer) : offset < buffer[i].offset}
    IN  IF later = {} THEN Len(buffer) + 1
        ELSE CHOOSE i \in later : \A j \in later : i <= j

\* std::lower_bound: the first index whose offset is not less than the given one.
LowerBound(buffer, offset) ==
    LET notLess == {i \in 1..Len(buffer) : ~(buffer[i].offset < offset)}
    IN  IF notLess = {} THEN Len(buffer) + 1
        ELSE CHOOSE i \in notLess : \A j \in notLess : i <= j

\* QuicStreamLike::insertIntoLossBuffer
InsertIntoLossBufferNoMerge(buffer, buf) ==
    InsertAt(buffer, UpperBound(buffer, buf.offset), buf)

InsertIntoLossBufferAtBack(buffer, buf) ==
    LET lossItr == Len(buffer) + 1
    IN  IF buffer # <<>> /\ lossItr # 1
           /\ buffer[lossItr - 1].offset + buffer[lossItr - 1].len = buf.offset
        THEN [buffer EXCEPT ![lossItr - 1].len = @ + buf.len,
                            ![lossItr - 1].eof = buf.eof]
        ELSE InsertAt(buffer, lossItr, buf)

InsertIntoLossBufferDropsTail(buffer, buf) ==
    LET lossItr == UpperBound(buffer, buf.offset)
    IN  IF buffer # <<>> /\ lossItr # 1
           /\ buffer[lossItr - 1].offset + buffer[lossItr - 1].len = buf.offset
        THEN [buffer EXCEPT ![lossItr - 1].eof = buf.eof]
        ELSE InsertAt(buffer, lossItr, buf)

InsertIntoLossBuffer(buffer, buf) ==
    LET lossItr == UpperBound(buffer, buf.offset)
    IN  IF buffer # <<>> /\ lossItr # 1
           /\ buffer[lossItr - 1].offset + buffer[lossItr - 1].len = buf.offset
        THEN [buffer EXCEPT ![lossItr - 1].len = @ + buf.len,
                            ![lossItr - 1].eof = buf.eof]
        ELSE InsertAt(buffer, lossItr, buf)

\* QuicStreamState::insertIntoLossBufMeta
InsertIntoLossBufMeta(metas, bufMeta) ==
    LET lossItr == UpperBound(metas, bufMeta.offset)
    IN  IF metas # <<>> /\ lossItr # 1
           /\ metas[lossItr - 1].offset + metas[lossItr - 1].len = bufMeta.offset
        THEN [metas EXCEPT ![lossItr - 1].len = @ + bufMeta.len,
                           ![lossItr - 1].eof = bufMeta.eof]
        ELSE InsertAt(metas, lossItr, bufMeta)

\* QuicStreamState::hasWritableData (writeBufMeta.offset = 0: no DSR data)
HasWritableData(st) ==
    IF st.pendingWrites > 0
    THEN st.peerAdvertisedMaxOffset - st.currentWriteOffset > 0
    ELSE IF st.finalWriteOffset # None
         THEN st.currentWriteOffset <= st.finalWriteOffset
         ELSE FALSE

\* The CHECK_GE of hasWritableData: it aborts the process when it fails.
HasWritableDataCheck(st) ==
    st.pendingWrites > 0 => st.peerAdvertisedMaxOffset >= st.currentWriteOffset

-----------------------------------------------------------------------------
(* QuicTransportFunctions.cpp: a stream frame has been written *)

\* retransmissionBuffer.emplace(offset, buffer): .second is false, and the
\* CHECK around it fails, when the key is already there.
RetxEmplace(st, entry) ==
    IF \E e \in st.retransmissionBuffer : e.offset = entry.offset
    THEN [st EXCEPT !.fault = "check"]
    ELSE [st EXCEPT !.retransmissionBuffer = @ \cup {entry}]

HandleNewStreamDataWrittenFinAlways(st, frameLen, frameFin) ==
    LET originalOffset == st.currentWriteOffset
        moved == [st EXCEPT !.currentWriteOffset = @ + frameLen + 1,
                            !.pendingWrites = @ - Min(@, frameLen)]
    IN  RetxEmplace(moved, [offset |-> originalOffset, len |-> frameLen, eof |-> frameFin])

HandleNewStreamDataWrittenNoRecord(st, frameLen, frameFin) ==
    [st EXCEPT !.currentWriteOffset = @ + frameLen + (IF frameFin THEN 1 ELSE 0),
               !.pendingWrites = @ - Min(@, frameLen)]

HandleNewStreamDataWritten(st, frameLen, frameFin) ==
    LET originalOffset == st.currentWriteOffset
        moved == [st EXCEPT !.currentWriteOffset = @ + frameLen + (IF frameFin THEN 1 ELSE 0),
                            !.pendingWrites = @ - Min(@, frameLen)]
    IN  RetxEmplace(moved, [offset |-> originalOffset, len |-> frameLen, eof |-> frameFin])

HandleRetransmissionWrittenKeepsOffset(st, frameOffset, frameLen, frameFin, lossBufferIter) ==
    LET buffer == st.lossBuffer[lossBufferIter]
        written == [offset |-> frameOffset, len |-> frameLen, eof |-> frameFin]
    IN  IF frameLen = buffer.len /\ frameFin = buffer.eof
        THEN RetxEmplace([st EXCEPT !.lossBuffer = RemoveAt(@, lossBufferIter)], written)
        ELSE RetxEmplace(
               [st EXCEPT !.lossBuffer[lossBufferIter].len = @ - Min(@, frameLen)],
               written)

HandleRetransmissionWrittenBufferFin(st, frameOffset, frameLen, frameFin, lossBufferIter) ==
    LET buffer == st.lossBuffer[lossBufferIter]
        written == [offset |-> frameOffset, len |-> frameLen, eof |-> buffer.eof]
    IN  IF frameLen = buffer.len /\ frameFin = buffer.eof
        THEN RetxEmplace([st EXCEPT !.lossBuffer = RemoveAt(@, lossBufferIter)], written)
        ELSE RetxEmplace(
               [st EXCEPT !.lossBuffer[lossBufferIter].offset = @ + frameLen,
                          !.lossBuffer[lossBufferIter].len = @ - Min(@, frameLen)],
               written)

HandleRetransmissionWritten(st, frameOffset, frameLen, frameFin, lossBufferIter) ==
    LET buffer == st.lossBuffer[lossBufferIter]
        written == [offset |-> frameOffset, len |-> frameLen, eof |-> frameFin]
    IN  IF frameLen = buffer.len /\ frameFin = buffer.eof
        THEN \* the buffer is entirely retransmitted
             RetxEmplace([st EXCEPT !.lossBuffer = RemoveAt(@, lossBufferIter)], written)
        ELSE \* offset += frameLen; data.splitAtMost(frameLen)
             RetxEmplace(
               [st EXCEPT !.lossBuffer[lossBufferIter].offset = @ + frameLen,
                          !.lossBuffer[lossBufferIter].len = @ - Min(@, frameLen)],
               written)

\* handleStreamWritten: the stream afterwards and whether the data was new.
\* kind is "new", "retx" or "clone".
HandleStreamWrittenAlwaysNew(st, frameOffset, frameLen, frameFin) ==
    [stream |-> HandleNewStreamDataWritten(st, frameLen, frameFin),
     kind |-> "new", isNew |-> TRUE]

HandleStreamWrittenRetxIsNew(st, frameOffset, frameLen, frameFin) ==
    LET lossBufferIter == LowerBound(st.lossBuffer, frameOffset)
    IN  IF frameOffset = st.currentWriteOffset
        THEN [stream |-> HandleNewStreamDataWritten(st, frameLen, frameFin),
              kind |-> "new", isNew |-> TRUE]
        ELSE IF frameOffset > st.currentWriteOffset
        THEN [stream |-> [st EXCEPT !.fault = "throw"], kind |-> "none", isNew |-> FALSE]
        ELSE IF lossBufferIter <= Len(st.lossBuffer)
                /\ st.lossBuffer[lossBufferIter].offset = frameOffset
        THEN [stream |-> HandleRetransmissionWritten(
                             st, frameOffset, frameLen, frameFin, lossBufferIter),
              kind |-> "retx", isNew |-> TRUE]
        ELSE [stream |-> st, kind |-> "clone", isNew |-> FALSE]

HandleStreamWritten(st, frameOffset, frameLen, frameFin) ==
    LET lossBufferIter == LowerBound(st.lossBuffer, frameOffset)
    IN  IF frameOffset = st.currentWriteOffset
        THEN [stream |-> HandleNewStreamDataWritten(st, frameLen, frameFin),
              kind |-> "new", isNew |-> TRUE]
        ELSE IF frameOffset > st.currentWriteOffset
        THEN \* throws QuicTransportException(INTERNAL_ERROR)
             [stream |-> [st EXCEPT !.fault = "throw"], kind |-> "none", isNew |-> FALSE]
        ELSE IF lossBufferIter <= Len(st.lossBuffer)
                /\ st.lossBuffer[lossBufferIter].offset = frameOffset
        THEN [stream |-> HandleRetransmissionWritten(
                             st, frameOffset, frameLen, frameFin, lossBufferIter),
              kind |-> "retx", isNew |-> FALSE]
        ELSE \* otherwise it must be a clone write
             [stream |-> st, kind |-> "clone", isNew |-> FALSE]

-----------------------------------------------------------------------------
(* QuicConnectionStateBase *)

AppData == "AppData"

\* kPacketToSendForPTO
kPacketToSendForPTO == 2

\* QuicError: an error code of one of three types; NoCloseDetails stands for
\* an Optional<QuicError> that holds nothing
QuicError(type, code) == [type |-> type, code |-> code]

NoCloseDetails == QuicError("none", "none")

NewConn(canSendAck, streamWindow, connWindow) ==
    [ streams |-> [s \in StreamIds |->
                     [NewStream EXCEPT !.peerAdvertisedMaxOffset = streamWindow]],
      \* flowControlState
      peerAdvertisedMaxOffset |-> connWindow,
      sumCurWriteOffset |-> 0,
      \* ackStates.*.nextPacketNum
      nextPacketNum |-> [sp \in Spaces |-> 0],
      \* outstandings.packets and outstandings.clonedPacketIdentifiers
      outstandings |-> <<>>,
      clonedPacketIdentifiers |-> {},
      \* lossState
      totalPacketsSent |-> 0,
      totalNewStreamBytesSent |-> 0,
      \* pendingEvents
      sendPing |-> FALSE,
      requestImmediateAck |-> FALSE,
      \* whether the peer lets us send ACK_FREQUENCY / IMMEDIATE_ACK
      canSendAckControlFrames |-> canSendAck,
      \* the packets of the current write call, in the order written
      wire |-> <<>>,
      \* probesToSend of the current write call when it is a probe write
      probesToSend |-> 0,
      \* lossState.totalBytesSent and totalBytesRecvd
      totalBytesSent |-> 0,
      totalBytesRecvd |-> 0,
      \* the amplification limit of a server whose client is not validated
      \* (None: no limit), and transportSettings.enableWritableBytesLimit
      writableBytesLimit |-> None,
      enableWritableBytesLimit |-> FALSE,
      numProbesWritableBytesLimited |-> 0,
      \* the errors the connection was closed with
      peerConnectionError |-> FALSE,
      localConnectionError |-> NoCloseDetails,
      \* the UDP packets received so far, and how many of them had been
      \* received when a close packet was last sent (None before that)
      receivedUdpPackets |-> 1,
      receivedUdpPacketsAtLastCloseSent |-> None,
      \* the write ciphers the connection holds
      initialWriteCipher |-> FALSE,
      handshakeWriteCipher |-> FALSE,
      oneRttWriteCipher |-> TRUE,
      \* cryptoState: the crypto stream of each encryption level
      cryptoStreams |-> [sp \in Spaces |-> [currentWriteOffset |-> 0,
                                            pendingWrites |-> 0]],
      \* pendingEvents.numProbePackets
      numProbePackets |-> [sp \in Spaces |-> 0],
      \* the 1-RTT key phases (KeyPhaseZero is 0, KeyPhaseOne is 1) and the
      \* key update state
      oneRttWritePhase |-> 0,
      oneRttWritePacketsSentInCurrentPhase |-> 0,
      oneRttWritePendingVerification |-> FALSE,
      oneRttWritePendingVerificationPacketNumber |-> None,
      \* readCodec: getCurrentOneRttReadPhase and canInitiateKeyUpdate
      currentOneRttReadPhase |-> 0,
      canInitiateKeyUpdate |-> TRUE,
      \* transportSettings
      initiateKeyUpdate |-> FALSE,
      firstKeyUpdatePacketCount |-> None,
      \* selfConnectionIds (the server's first ID has sequence number 0),
      \* nextSelfConnectionIdSequence, the simple frames queued in
      \* pendingEvents.frames, and what maybeIssueConnectionIds reads
      selfConnectionIds |-> <<>>,
      nextSelfConnectionIdSequence |-> 0,
      pendingFrames |-> <<>>,
      peerActiveConnectionIdLimit |-> 0,
      disableMigration |-> FALSE,
      handshakeDone |-> FALSE,
      \* what the batch writer's write returns: FALSE when its flush fails
      writeSuccess |-> TRUE,
      \* writeDebugState.noWriteReason, with a loopDetectorCallback installed
      noWriteReason |-> "NO_WRITE",
      \* pendingWriteBatch_ holds the batch of a failed socket write, the
      \* errno the batch writer's flush fails with ("none": it succeeds),
      \* and the errno counters
      pendingWriteBatch |-> FALSE,
      flushErrno |-> "none",
      eagainOrEwouldblockCount |-> 0,
      enobufsCount |-> 0,
      \* the number of the last packet written in each space
      lastSent |-> [sp \in Spaces |-> None],
      \* writeData of the current write call took more from its packetLimit
      \* than the limit held
      packetLimitWrapped |-> FALSE,
      \* totalBytesSent and receivedUdpPackets when the connection closed
      bytesSentAtClose |-> 0,
      receivedUdpPacketsAtClose |-> 0,
      \* the transport has been closed
      closed |-> FALSE,
      fault |-> NoFault ]

Faulted(c) ==
    c.fault # NoFault \/ \E s \in StreamIds : c.streams[s].fault # NoFault

\* the transport is running: nothing has aborted it and it is not closed
Running(c) == ~Faulted(c) /\ ~c.closed

\* increaseNextPacketNum
IncreaseNextPacketNum(c, pnSpace) ==
    [c EXCEPT !.nextPacketNum[pnSpace] = @ + 1]

\* getNextPacketNum
GetNextPacketNum(c, pnSpace) == c.nextPacketNum[pnSpace]

\* updateFlowControlOnWriteToSocket
UpdateFlowControlOnWriteToSocket(c, length) ==
    [c EXCEPT !.sumCurWriteOffset = @ + length]

\* updateConnection, case WriteStreamFrame
StreamFrameWritten(c, frame) ==
    LET r == HandleStreamWritten(
                 c.streams[frame.streamId], frame.offset, frame.len, frame.fin)
        c1 == [c EXCEPT !.streams[frame.streamId] = r.stream]
    IN  IF r.isNew
        THEN [UpdateFlowControlOnWriteToSocket(c1, frame.len)
                EXCEPT !.totalNewStreamBytesSent = @ + frame.len]
        ELSE c1

\* updateConnection, the switch over one frame of the packet
FrameWritten(c, frame) ==
    CASE frame.type = "stream" -> StreamFrameWritten(c, frame)
      [] frame.type = "ping" -> [c EXCEPT !.sendPing = FALSE]
      [] frame.type = "immediate_ack" -> [c EXCEPT !.requestImmediateAck = FALSE]
      [] OTHER -> c

RECURSIVE FramesWritten(_, _)
FramesWritten(c, frames) ==
    IF frames = <<>> THEN c
    ELSE FramesWritten(FrameWritten(c, Head(frames)), Tail(frames))

\* What handleStreamWritten made of each frame of a packet, in frame order
\* ("new", "retx" or "clone"; "none" for the other frame types).
RECURSIVE FrameKinds(_, _)
FrameKinds(c, frames) ==
    IF frames = <<>> THEN <<>>
    ELSE LET f == Head(frames)
             kind == IF f.type = "stream"
                     THEN HandleStreamWritten(
                              c.streams[f.streamId], f.offset, f.len, f.fin).kind
                     ELSE "none"
         IN  <<kind>> \o FrameKinds(FrameWritten(c, f), Tail(frames))

\* updateConnection: the frames that set retransmittable
RetransmittableCountsDatagram(frames) ==
    \E i \in 1..Len(frames) : frames[i].type \notin {"ack", "padding"}

Retransmittable(frames) ==
    \E i \in 1..Len(frames) : frames[i].type \notin {"ack", "padding", "datagram"}

IsPing(frames) == \E i \in 1..Len(frames) : frames[i].type = "ping"

\* updateConnection: where the packet goes in outstandings.packets, the
\* position after the last packet with a smaller packet number
\* (find_if over rbegin..rend, then base()).
OutstandingInsertPosBeforeFound(packets, packetNum) ==
    LET smaller == {i \in 1..Len(packets) : packets[i].packetNum < packetNum}
    IN  IF smaller = {} THEN 1
        ELSE CHOOSE i \in smaller : \A j \in smaller : j <= i

OutstandingInsertPos(packets, packetNum) ==
    LET smaller == {i \in 1..Len(packets) : packets[i].packetNum < packetNum}
    IN  IF smaller = {} THEN 1
        ELSE (CHOOSE i \in smaller : \A j \in smaller : j <= i) + 1

\* The OutstandingPacketWrapper emplaced by updateConnection.
\* maybeClonedPacketIdentifier is {} (none) or {<<space, packet number>>}.
OutstandingPacketUntagged(packet, clonedPacketIdentifier) ==
    [space |-> packet.space, packetNum |-> packet.packetNum,
     frames |-> packet.frames, maybeClonedPacketIdentifier |-> {}]

OutstandingPacket(packet, clonedPacketIdentifier) ==
    [space |-> packet.space, packetNum |-> packet.packetNum,
     frames |-> packet.frames,
     maybeClonedPacketIdentifier |-> clonedPacketIdentifier]

\* updateConnection: the packets sent in the current 1-RTT write phase are
\* counted, and the first one after a key update was initiated is remembered.
\* A packet of the AppData space is protected with oneRttWritePhase, the
\* packets of the other spaces are not.
PacketSentInPhaseAlwaysRecords(c, packet) ==
    IF packet.space # AppData THEN c
    ELSE [c EXCEPT !.oneRttWritePacketsSentInCurrentPhase = @ + 1,
                   !.oneRttWritePendingVerificationPacketNumber =
                       IF c.oneRttWritePendingVerification
                       THEN packet.packetNum ELSE @]

PacketSentInPhase(c, packet) ==
    IF packet.space # AppData THEN c
    ELSE [c EXCEPT !.oneRttWritePacketsSentInCurrentPhase = @ + 1,
                   !.oneRttWritePendingVerificationPacketNumber =
                       IF /\ c.oneRttWritePendingVerification
                          /\ c.oneRttWritePacketsSentInCurrentPhase = 0
                       THEN packet.packetNum ELSE @]

\* updateConnection, case WriteCryptoFrame: the crypto stream of the packet's
\* encryption level takes the frame; a frame at currentWriteOffset is new
\* data, any other one is a retransmission or a clone.
RECURSIVE CryptoFramesWritten(_, _, _)
CryptoFramesWritten(c, pnSpace, frames) ==
    IF frames = <<>> THEN c
    ELSE LET f == Head(frames)
             cs == c.cryptoStreams[pnSpace]
             c1 == IF f.type = "crypto" /\ f.offset = cs.currentWriteOffset
                   THEN [c EXCEPT !.cryptoStreams[pnSpace] =
                            [currentWriteOffset |-> cs.currentWriteOffset + f.len,
                             pendingWrites |-> cs.pendingWrites - f.len]]
                   ELSE c
         IN  CryptoFramesWritten(c1, pnSpace, Tail(frames))

\* encodedSize: a packet built by a scheduler is taken to fill the datagram
EncodedSize(packet) == udpSendPacketLen

\* updateConnection
UpdateConnection(c, clonedPacketIdentifier, packet) ==
    LET c1 == CryptoFramesWritten(
                  FramesWritten(c, packet.frames), packet.space, packet.frames)
        c2 == IncreaseNextPacketNum(c1, packet.space)
        c2b == [c2 EXCEPT !.totalPacketsSent = @ + 1,
                          !.totalBytesSent = @ + EncodedSize(packet),
                          !.lastSent[packet.space] = packet.packetNum,
                          !.wire = Append(@, [space |-> packet.space,
                                              packetNum |-> packet.packetNum,
                                              frames |-> packet.frames,
                                              kinds |-> FrameKinds(c, packet.frames),
                                              cloneOf |-> clonedPacketIdentifier])]
        c3 == PacketSentInPhase(c2b, packet)
    IN  IF ~Retransmittable(packet.frames) /\ ~IsPing(packet.frames)
        THEN c3
        ELSE [c3 EXCEPT !.outstandings =
                 InsertAt(@, OutstandingInsertPos(@, packet.packetNum),
                          OutstandingPacket(packet, clonedPacketIdentifier))]

ConnectionCloseFrame(errorCode, frameType) ==
    [type |-> "connection_close", errorCode |-> errorCode, frameType |-> frameType]

\* writeCloseCommon: the CONNECTION_CLOSE frame written for closeDetails
CloseFrameKeepsLocalCode(closeDetails) ==
    IF closeDetails = NoCloseDetails
    THEN ConnectionCloseFrame("NO_ERROR", "CONNECTION_CLOSE")
    ELSE IF closeDetails.type = "ApplicationErrorCode"
    THEN ConnectionCloseFrame(closeDetails.code, "CONNECTION_CLOSE_APP_ERR")
    ELSE ConnectionCloseFrame(closeDetails.code, "CONNECTION_CLOSE")

CloseFrame(closeDetails) ==
    IF closeDetails = NoCloseDetails
    THEN ConnectionCloseFrame("NO_ERROR", "CONNECTION_CLOSE")
    ELSE CASE closeDetails.type = "ApplicationErrorCode" ->
                ConnectionCloseFrame(closeDetails.code, "CONNECTION_CLOSE_APP_ERR")
           [] closeDetails.type = "TransportErrorCode" ->
                ConnectionCloseFrame(closeDetails.code, "CONNECTION_CLOSE")
           [] closeDetails.type = "LocalErrorCode" ->
                ConnectionCloseFrame("INTERNAL_ERROR", "CONNECTION_CLOSE")

\* writeCloseCommon: the close packet takes a packet number and goes to the
\* socket; none of the packet-sent logic runs.
WriteCloseCommon(c, pnSpace, closeDetails) ==
    LET packetNum == GetNextPacketNum(c, pnSpace)
        c1 == IncreaseNextPacketNum(c, pnSpace)
    IN  [c1 EXCEPT !.lastSent[pnSpace] = packetNum,
                   !.totalBytesSent = @ + ClosePacketLen,
                   !.wire = Append(@, [space |-> pnSpace, packetNum |-> packetNum,
                                       frames |-> <<CloseFrame(closeDetails)>>,
                                       kinds |-> <<"none">>,
                                       cloneOf |-> {}])]

-----------------------------------------------------------------------------
(* Key update *)

\* updateOneRttWriteCipher
UpdateOneRttWriteCipherKeepsCount(c, oneRttPhase) ==
    IF oneRttPhase \notin {0, 1} \/ oneRttPhase = c.oneRttWritePhase
    THEN [c EXCEPT !.fault = "check"]
    ELSE [c EXCEPT !.oneRttWritePhase = oneRttPhase]

UpdateOneRttWriteCipher(c, oneRttPhase) ==
    IF oneRttPhase \notin {0, 1} \/ oneRttPhase = c.oneRttWritePhase
    THEN [c EXCEPT !.fault = "check"]
    ELSE [c EXCEPT !.oneRttWritePhase = oneRttPhase,
                   !.oneRttWritePacketsSentInCurrentPhase = 0]

\* readCodec->advanceOneRttReadPhase
AdvanceOneRttReadPhase(c) ==
    [c EXCEPT !.currentOneRttReadPhase = 1 - @]

\* maybeHandleIncomingKeyUpdate
MaybeHandleIncomingKeyUpdate(c) ==
    IF c.currentOneRttReadPhase # c.oneRttWritePhase
    THEN UpdateOneRttWriteCipher(c, c.currentOneRttReadPhase)
    ELSE c

PacketsBeforeNextUpdate(c) ==
    IF c.firstKeyUpdatePacketCount # None
    THEN c.firstKeyUpdatePacketCount
    ELSE keyUpdatePacketCountInterval

\* maybeInitiateKeyUpdate
MaybeInitiateKeyUpdate(c) ==
    IF /\ c.initiateKeyUpdate
       /\ c.oneRttWritePacketsSentInCurrentPhase > PacketsBeforeNextUpdate(c)
       /\ c.canInitiateKeyUpdate
    THEN LET c1 == [AdvanceOneRttReadPhase(c) EXCEPT !.firstKeyUpdatePacketCount = None]
             c2 == UpdateOneRttWriteCipher(c1, c1.currentOneRttReadPhase)
         IN  [c2 EXCEPT !.oneRttWritePendingVerification = TRUE,
                        !.oneRttWritePendingVerificationPacketNumber = None]
    ELSE c

\* maybeVerifyPendingKeyUpdate: outstandingPacket is the acked packet,
\* ackPhase the key phase of the packet that carried the ACK
MaybeVerifyPendingKeyUpdateNeverFails(c, outstandingPacket, ackPhase) ==
    IF outstandingPacket.space # AppData THEN c
    ELSE IF /\ c.oneRttWritePendingVerificationPacketNumber # None
            /\ outstandingPacket.packetNum
                  >= c.oneRttWritePendingVerificationPacketNumber
    THEN [c EXCEPT !.oneRttWritePendingVerificationPacketNumber = None,
                   !.oneRttWritePendingVerification = FALSE]
    ELSE c

MaybeVerifyPendingKeyUpdate(c, outstandingPacket, ackPhase) ==
    IF outstandingPacket.space # AppData THEN c
    ELSE IF /\ c.oneRttWritePendingVerificationPacketNumber # None
            /\ outstandingPacket.packetNum
                  >= c.oneRttWritePendingVerificationPacketNumber
    THEN IF ackPhase = c.oneRttWritePhase
         THEN [c EXCEPT !.oneRttWritePendingVerificationPacketNumber = None,
                        !.oneRttWritePendingVerification = FALSE]
         ELSE [c EXCEPT !.fault = "CRYPTO_ERROR"]
    ELSE c

-----------------------------------------------------------------------------
(* The ACK and loss visitors (the stream send state machine) *)

RetxFind(st, offset) == {e \in st.retransmissionBuffer : e.offset = offset}

\* sendAckSMHandler, stream open: the acked frame's buffer leaves the
\* retransmission buffer and its bytes are marked delivered.
AckStreamFrame(st, frame) ==
    LET found == RetxFind(st, frame.offset)
        e == CHOOSE x \in found : TRUE
    IN  IF found = {} THEN st
        ELSE IF e.len # frame.len \/ e.eof # frame.fin
        THEN [st EXCEPT !.fault = "check"]
        ELSE [UpdateAckedIntervals(st, e.offset, e.len, e.eof)
                EXCEPT !.retransmissionBuffer = @ \ {e},
                       !.deliveredBytes = @ + e.len]

\* markPacketLoss, case WriteStreamFrame: the frame's buffer moves from the
\* retransmission buffer to the loss buffer.
LoseStreamFrame(st, frame) ==
    LET found == RetxFind(st, frame.offset)
        e == CHOOSE x \in found : TRUE
    IN  IF found = {} THEN st
        ELSE [st EXCEPT !.lossBuffer = InsertIntoLossBuffer(@, e),
                        !.retransmissionBuffer = @ \ {e}]

RECURSIVE FramesAcked(_, _)
FramesAcked(c, frames) ==
    IF frames = <<>> THEN c
    ELSE LET f == Head(frames)
             c1 == IF f.type = "stream"
                   THEN [c EXCEPT !.streams[f.streamId] = AckStreamFrame(@, f)]
                   ELSE c
         IN  FramesAcked(c1, Tail(frames))

RECURSIVE FramesLost(_, _)
FramesLost(c, frames) ==
    IF frames = <<>> THEN c
    ELSE LET f == Head(frames)
             c1 == IF f.type = "stream"
                   THEN [c EXCEPT !.streams[f.streamId] = LoseStreamFrame(@, f)]
                   ELSE c
         IN  FramesLost(c1, Tail(frames))

\* A packet whose ClonedPacketIdentifier has left clonedPacketIdentifiers:
\* another packet with the same identifier has been acked or lost already.
Processed(c, pkt) ==
    /\ pkt.maybeClonedPacketIdentifier # {}
    /\ ~(pkt.maybeClonedPacketIdentifier \subseteq c.clonedPacketIdentifiers)

\* processAckFrame for one acked outstanding packet
OnPacketAcked(c, i) ==
    LET pkt == c.outstandings[i]
        c1 == [c EXCEPT !.outstandings = RemoveAt(@, i),
                        !.clonedPacketIdentifiers = @ \ pkt.maybeClonedPacketIdentifier]
    IN  IF Processed(c, pkt) THEN c1 ELSE FramesAcked(c1, pkt.frames)

\* detectLossPackets / markPacketLoss for one outstanding packet
OnPacketLost(c, i) ==
    LET pkt == c.outstandings[i]
        c1 == [c EXCEPT !.outstandings = RemoveAt(@, i),
                        !.clonedPacketIdentifiers = @ \ pkt.maybeClonedPacketIdentifier]
    IN  IF Processed(c, pkt) THEN c1 ELSE FramesLost(c1, pkt.frames)

-----------------------------------------------------------------------------
(* The frame schedulers *)

\* getSendStreamFlowControlBytesWire / getSendConnFlowControlBytesWire
SendFlowControlBytes(c, s) ==
    Min(c.streams[s].peerAdvertisedMaxOffset - c.streams[s].currentWriteOffset,
        c.peerAdvertisedMaxOffset - c.sumCurWriteOffset)

\* StreamFrameScheduler, new data: a frame of len bytes at currentWriteOffset,
\* limited by the pending data and by flow control; FIN rides on the frame
\* that takes the last pending byte.
NewDataFrame(c, s, len) ==
    LET st == c.streams[s]
    IN  Frame("stream", s, st.currentWriteOffset, len,
              st.finalWriteOffset # None /\ len = st.pendingWrites)

CanWriteNewData(c, s, len) ==
    LET st == c.streams[s]
    IN  /\ HasWritableData(st)
        /\ len <= st.pendingWrites
        /\ len <= Max(SendFlowControlBytes(c, s), 0)
        /\ (len > 0 \/ (st.finalWriteOffset # None /\ st.pendingWrites = 0))

\* StreamFrameScheduler::writeStreamLossBuffers: a frame of len bytes from
\* the front of the loss buffer, at the buffer's offset.
LossFrame(c, s, len) ==
    LET buffer == c.streams[s].lossBuffer[1]
    IN  Frame("stream", s, buffer.offset, len, buffer.eof /\ len = buffer.len)

CanWriteLoss(c, s, len) ==
    LET lb == c.streams[s].lossBuffer
    IN  /\ lb # <<>>
        /\ len <= lb[1].len
        /\ (len > 0 \/ (lb[1].len = 0 /\ lb[1].eof))

\* PacketRebuilder: a stream frame can be cloned while its buffer is still in
\* the retransmission buffer (a FIN-only frame has no buffer to look up).
Rebuildable(c, pkt) ==
    \A k \in 1..Len(pkt.frames) :
        LET f == pkt.frames[k]
        IN  (f.type = "stream" /\ f.len > 0) =>
              \E e \in c.streams[f.streamId].retransmissionBuffer :
                  e.offset = f.offset /\ e.len = f.len /\ e.eof = f.fin

CloneCandidates(c, pnSpace) ==
    {i \in 1..Len(c.outstandings) :
        /\ c.outstandings[i].space = pnSpace
        /\ ~Processed(c, c.outstandings[i])
        /\ Rebuildable(c, c.outstandings[i])}

\* CryptoStreamScheduler: one frame of crypto data at the stream's
\* currentWriteOffset
CryptoFrame(c, pnSpace) ==
    Frame("crypto", None, c.cryptoStreams[pnSpace].currentWriteOffset, 1, FALSE)

SchedulerHasData(c, scheduler, pnSpace) ==
    CASE scheduler = "clone" -> c.outstandings # <<>>
      [] scheduler = "ping" -> c.sendPing
      [] scheduler = "immediate_ack" -> c.requestImmediateAck
      [] scheduler = "crypto" -> c.cryptoStreams[pnSpace].pendingWrites > 0
      [] scheduler = "frame" ->
            c.cryptoStreams[pnSpace].pendingWrites > 0 \/ c.sendPing

\* scheduleFramesForPacket.  The cloning scheduler takes the first
\* outstanding packet it can rebuild, gives it a ClonedPacketIdentifier if it
\* has none, and hands the same identifier to the clone.
ScheduleFramesForPacket(c, scheduler, pnSpace) ==
    IF scheduler = "clone"
    THEN LET cands == CloneCandidates(c, pnSpace)
             i == CHOOSE x \in cands : \A y \in cands : x <= y
             op == c.outstandings[i]
             id == IF op.maybeClonedPacketIdentifier # {}
                   THEN op.maybeClonedPacketIdentifier
                   ELSE {<<op.space, op.packetNum>>}
         IN  IF cands = {}
             THEN [ok |-> FALSE, conn |-> c, frames |-> <<>>, clonedPacketIdentifier |-> {}]
             ELSE [ok |-> TRUE,
                   conn |-> [c EXCEPT !.outstandings[i].maybeClonedPacketIdentifier = id,
                                      !.clonedPacketIdentifiers = @ \cup id],
                   frames |-> op.frames,
                   clonedPacketIdentifier |-> id]
    ELSE IF scheduler \in {"crypto", "frame"}
    THEN [ok |-> TRUE, conn |-> c,
          frames |-> (IF c.cryptoStreams[pnSpace].pendingWrites > 0
                      THEN <<CryptoFrame(c, pnSpace)>> ELSE <<>>)
                     \o (IF scheduler = "frame" /\ c.sendPing
                         THEN <<CtlFrame("ping")>> ELSE <<>>),
          clonedPacketIdentifier |-> {}]
    ELSE [ok |-> TRUE, conn |-> c, frames |-> <<CtlFrame(scheduler)>>,
          clonedPacketIdentifier |-> {}]

-----------------------------------------------------------------------------
(* The write loop and the probe writer *)

\* the result of one step of a function, named once for the steps after it
Bind(value, Body(_)) == Body(value)

\* writeConnectionDataToSocket, one turn of the loop after the packet has
\* been built and handed to the batch writer: updateConnection runs whatever
\* the write returned, and a failed write only records the reason.
WritePacketRollsBack(c, clonedPacketIdentifier, packet) ==
    IF c.writeSuccess
    THEN UpdateConnection(c, clonedPacketIdentifier, packet)
    ELSE [c EXCEPT !.noWriteReason = "SOCKET_FAILURE",
                   !.wire = Append(@, [space |-> packet.space,
                                       packetNum |-> packet.packetNum,
                                       frames |-> packet.frames,
                                       kinds |-> FrameKinds(c, packet.frames),
                                       cloneOf |-> clonedPacketIdentifier])]

WritePacket(c, clonedPacketIdentifier, packet) ==
    [UpdateConnection(c, clonedPacketIdentifier, packet)
       EXCEPT !.noWriteReason = IF c.writeSuccess THEN @ ELSE "SOCKET_FAILURE"]

\* unlimitedWritableBytes: std::numeric_limits<uint64_t>::max() (30 bits here)
UnlimitedWritableBytes == 2 ^ 30

\* rounding up to the nearest multiple of udpSendPacketLen
RoundUpToPacketLen(bytes) ==
    ((bytes + udpSendPacketLen - 1) \div udpSendPacketLen) * udpSendPacketLen

\* maybeUnvalidatedClientWritableBytes
MaybeUnvalidatedClientWritableBytes(c) ==
    IF c.writableBytesLimit = None THEN UnlimitedWritableBytes
    ELSE IF c.writableBytesLimit <= c.totalBytesSent THEN 0
    ELSE RoundUpToPacketLen(c.writableBytesLimit - c.totalBytesSent)

\* congestionControlWritableBytes, without a path validation, a congestion
\* controller or a throttling signal
CongestionControlWritableBytes(c) ==
    LET writableBytes == IF c.writableBytesLimit # None
                         THEN MaybeUnvalidatedClientWritableBytes(c)
                         ELSE UnlimitedWritableBytes
    IN  IF writableBytes = UnlimitedWritableBytes THEN writableBytes
        ELSE RoundUpToPacketLen(writableBytes)

\* the WritableBytesFunc handed to writeConnectionDataToSocket: the bytes it
\* returns and the connection it leaves (probePacketWritableBytes counts the
\* probes it stops)
WritableBytesFunc(c, func) ==
    CASE func = "congestionControlWritableBytes" ->
            [bytes |-> CongestionControlWritableBytes(c), conn |-> c]
      [] func = "probePacketWritableBytes" ->
            LET probeWritableBytes == MaybeUnvalidatedClientWritableBytes(c)
            IN  [bytes |-> probeWritableBytes,
                 conn |-> IF probeWritableBytes = 0
                          THEN [c EXCEPT !.numProbesWritableBytesLimited = @ + 1]
                          ELSE c]
      [] func = "unlimitedWritableBytes" ->
            [bytes |-> UnlimitedWritableBytes, conn |-> c]

\* writeProbingDataToSocket: the WritableBytesFunc of a probe write
ProbeWritableBytesFunc(c) ==
    IF c.enableWritableBytesLimit THEN "probePacketWritableBytes"
    ELSE "unlimitedWritableBytes"

\* writeConnectionDataToSocket, the write loop: one packet per turn, each
\* followed by updateConnection, until the scheduler has nothing left, the
\* packet limit is reached or a packet cannot be built.  With no writable
\* bytes the scheduler writes no frame and the build fails.
RECURSIVE WriteConnectionDataLoop(_, _, _, _, _)
WriteConnectionDataLoop(c, pnSpace, scheduler, writableBytesFunc, packetLimit) ==
    IF packetLimit = 0 \/ Faulted(c) \/ ~SchedulerHasData(c, scheduler, pnSpace)
    THEN c
    ELSE Bind(WritableBytesFunc(c, writableBytesFunc), LAMBDA writable :
           IF Min(udpSendPacketLen, writable.bytes) = 0 THEN writable.conn
           ELSE Bind(ScheduleFramesForPacket(writable.conn, scheduler, pnSpace),
                     LAMBDA built :
             IF ~built.ok THEN writable.conn
             ELSE Bind(WritePacket(built.conn, built.clonedPacketIdentifier,
                           [space |-> pnSpace,
                            packetNum |-> GetNextPacketNum(c, pnSpace),
                            frames |-> built.frames]),
                       LAMBDA written :
               IF ~c.writeSuccess THEN written
               ELSE WriteConnectionDataLoop(
                        written, pnSpace, scheduler, writableBytesFunc,
                        packetLimit - 1))))

\* updateErrnoCount
UpdateErrnoCount(c, lastErrno) ==
    IF lastErrno \in {"EAGAIN", "EWOULDBLOCK"}
    THEN [c EXCEPT !.eagainOrEwouldblockCount = @ + 1]
    ELSE IF lastErrno = "ENOBUFS" THEN [c EXCEPT !.enobufsCount = @ + 1]
    ELSE c

\* writeConnectionDataToSocket that goes on to the write loop after a failed
\* flush of the pending batch
WriteConnectionDataAfterFailedFlush(c, pnSpace, scheduler, writableBytesFunc, packetLimit) ==
    IF c.pendingWriteBatch /\ ~Faulted(c)
    THEN WriteConnectionDataLoop(
             UpdateErrnoCount(c, c.flushErrno),
             pnSpace, scheduler, writableBytesFunc, packetLimit)
    ELSE WriteConnectionDataLoop(c, pnSpace, scheduler, writableBytesFunc,
                                 packetLimit)

\* writeConnectionDataToSocket: a pending batch is flushed first, and a
\* failed flush ends the call with an empty result; then the write loop
WriteConnectionDataToSocket(c, pnSpace, scheduler, writableBytesFunc, packetLimit) ==
    IF c.pendingWriteBatch /\ ~Faulted(c)
    THEN IF c.flushErrno = "none"
         THEN WriteConnectionDataLoop(
                  [c EXCEPT !.pendingWriteBatch = FALSE],
                  pnSpace, scheduler, writableBytesFunc, packetLimit)
         ELSE UpdateErrnoCount(c, c.flushErrno)
    ELSE WriteConnectionDataLoop(c, pnSpace, scheduler, writableBytesFunc,
                                 packetLimit)

\* writeProbingDataToSocket: an immediate ack raises the number of probes to
\* kPacketToSendForPTO
ProbesToSend(c, pnSpace, probesToSendIn) ==
    IF probesToSendIn > 0 /\ c.canSendAckControlFrames /\ pnSpace = AppData
    THEN Max(probesToSendIn, kPacketToSendForPTO)
    ELSE probesToSendIn

WriteProbingDataToSocketCloneOnly(c, pnSpace, probesToSendIn) ==
    WriteConnectionDataToSocket(
        [IncreaseNextPacketNum(c, pnSpace)
           EXCEPT !.probesToSend = ProbesToSend(c, pnSpace, probesToSendIn)],
        pnSpace, "clone", ProbeWritableBytesFunc(c),
        IF probesToSendIn > 0 /\ c.canSendAckControlFrames /\ pnSpace = AppData
        THEN ProbesToSend(c, pnSpace, probesToSendIn) - 1
        ELSE probesToSendIn)

\* writeProbingDataToSocket
WriteProbingDataToSocket(c, pnSpace, probesToSendIn) ==
    LET probesToSend == ProbesToSend(c, pnSpace, probesToSendIn)
        useImmediateAck == c.canSendAckControlFrames /\ pnSpace = AppData
    IN  Bind(WriteConnectionDataToSocket(
                 [IncreaseNextPacketNum(c, pnSpace)
                    EXCEPT !.probesToSend = probesToSend],
                 pnSpace, "clone", ProbeWritableBytesFunc(c),
                 IF probesToSendIn > 0 /\ useImmediateAck
                 THEN probesToSend - 1 ELSE probesToSendIn),
             LAMBDA c1 :
          IF Len(c1.wire) - Len(c.wire) < probesToSend
          THEN WriteConnectionDataToSocket(
                   [c1 EXCEPT !.requestImmediateAck =
                                  IF useImmediateAck THEN TRUE ELSE @,
                              !.sendPing = IF useImmediateAck THEN @ ELSE TRUE],
                   pnSpace,
                   IF useImmediateAck THEN "immediate_ack" ELSE "ping",
                   ProbeWritableBytesFunc(c),
                   probesToSend - (Len(c1.wire) - Len(c.wire)))
          ELSE c1)

-----------------------------------------------------------------------------
(* QuicServerTransport::writeData *)

AnyProbePackets(c) == \E sp \in Spaces : c.numProbePackets[sp] > 0

\* cryptoStream.retransmissionBuffer.size(): crypto data sent and not acked
CryptoRetransmissionBufferSize(c, pnSpace) ==
    Cardinality({i \in 1..Len(c.outstandings) :
                   /\ c.outstandings[i].space = pnSpace
                   /\ \E k \in 1..Len(c.outstandings[i].frames) :
                         c.outstandings[i].frames[k].type = "crypto"})

\* the packets left of packetLimit once probesWritten probes have been sent
LimitAfterProbes(packetLimit, probesWritten) ==
    IF probesWritten > packetLimit THEN 0 ELSE packetLimit - probesWritten

\* writeCryptoAndAckDataToSocket (immediatelyRetransmitInitialPackets off)
WriteCryptoAndAckDataToSocket(c, pnSpace, packetLimitIn) ==
    Bind(IF /\ c.numProbePackets[pnSpace] > 0
            /\ \/ CryptoRetransmissionBufferSize(c, pnSpace) > 0
               \/ SchedulerHasData(c, "crypto", pnSpace)
         THEN WriteProbingDataToSocket(c, pnSpace, c.numProbePackets[pnSpace])
         ELSE c,
         LAMBDA c1 :
      Bind(WriteConnectionDataToSocket(
               [c1 EXCEPT !.numProbePackets[pnSpace] = 0],
               pnSpace, "crypto", "congestionControlWritableBytes",
               LimitAfterProbes(packetLimitIn, Len(c1.wire) - Len(c.wire))),
           LAMBDA c3 :
        [conn |-> c3, packetsWritten |-> Len(c3.wire) - Len(c1.wire),
         probesWritten |-> Len(c1.wire) - Len(c.wire)]))

\* handleInitialWriteDataCommon, handleHandshakeWriteDataCommon
HandleWriteDataCommon(c, pnSpace, packetLimit) ==
    IF \/ (CryptoRetransmissionBufferSize(c, pnSpace) > 0
            /\ c.numProbePackets[pnSpace] > 0)
       \/ SchedulerHasData(c, "crypto", pnSpace)
    THEN WriteCryptoAndAckDataToSocket(c, pnSpace, packetLimit)
    ELSE [conn |-> c, packetsWritten |-> 0, probesWritten |-> 0]

\* writeQuicDataToSocketImpl
WriteQuicDataToSocketImpl(c, packetLimitIn) ==
    Bind(IF c.numProbePackets[AppData] > 0
         THEN [WriteProbingDataToSocket(c, AppData, c.numProbePackets[AppData])
                 EXCEPT !.numProbePackets[AppData] = 0]
         ELSE c,
         LAMBDA c1 :
      Bind(WriteConnectionDataToSocket(
               c1, AppData, "frame", "congestionControlWritableBytes",
               IF c.numProbePackets[AppData] = 0 THEN packetLimitIn
               ELSE LimitAfterProbes(packetLimitIn, Len(c1.wire) - Len(c.wire))),
           LAMBDA c2 :
        [conn |-> c2, packetsWritten |-> Len(c2.wire) - Len(c1.wire),
         probesWritten |-> Len(c1.wire) - Len(c.wire)]))

\* writeData, the loop over the 1-RTT write path.  Every packet is taken
\* to fill udpSendPacketLen, so bytesWritten / udpSendPacketLen is the number
\* of packets and probes written.  packetLimit is a uint64_t: taking more
\* from it than it holds wraps around to a very large limit (30 bits here).
RECURSIVE WriteOneRttData(_, _)
WriteOneRttData(c, packetLimit) ==
    IF packetLimit = 0 THEN c
    ELSE Bind(WriteQuicDataToSocketImpl(c, packetLimit), LAMBDA r :
           IF r.packetsWritten + r.probesWritten = 0 THEN r.conn
           ELSE WriteOneRttData(
                    [r.conn EXCEPT !.packetLimitWrapped =
                         @ \/ r.packetsWritten + r.probesWritten > packetLimit],
                    (packetLimit - (r.packetsWritten + r.probesWritten))
                        % (2 ^ 30)))

\* hasReceivedUdpPacketsAtLastCloseSent
HasReceivedUdpPacketsAtLastCloseSent(c) ==
    c.receivedUdpPacketsAtLastCloseSent # None

\* hasNotReceivedNewPacketsSinceLastCloseSent
HasNotReceivedNewPacketsSinceLastCloseSent(c) ==
    c.receivedUdpPacketsAtLastCloseSent = c.receivedUdpPackets

\* updateLargestReceivedUdpPacketsAtLastCloseSent
UpdateLargestReceivedUdpPacketsAtLastCloseSent(c) ==
    [c EXCEPT !.receivedUdpPacketsAtLastCloseSent =
                  IF c.receivedUdpPackets > 0 THEN c.receivedUdpPackets ELSE None]

\* writeData with closeState_ == CLOSED: a close packet for every cipher held
WriteClosePackets(c) ==
    LET c0 == UpdateLargestReceivedUdpPacketsAtLastCloseSent(c)
        c1 == IF c.oneRttWriteCipher
              THEN WriteCloseCommon(c0, AppData, c.localConnectionError) ELSE c0
        c2 == IF c.handshakeWriteCipher
              THEN WriteCloseCommon(c1, "Handshake", c.localConnectionError) ELSE c1
    IN  IF c.initialWriteCipher
        THEN WriteCloseCommon(c2, "Initial", c.localConnectionError) ELSE c2

WriteDataClosedIgnoresPeerError(c) ==
    IF /\ HasReceivedUdpPacketsAtLastCloseSent(c)
       /\ HasNotReceivedNewPacketsSinceLastCloseSent(c)
    THEN c
    ELSE WriteClosePackets(c)

\* writeData with closeState_ == CLOSED that writes whether or not a packet
\* has arrived since the last close packet
WriteDataClosedWithoutNewPackets(c) ==
    IF c.peerConnectionError /\ HasReceivedUdpPacketsAtLastCloseSent(c)
    THEN c
    ELSE WriteClosePackets(c)

WriteDataClosed(c) ==
    IF c.peerConnectionError /\ HasReceivedUdpPacketsAtLastCloseSent(c)
    THEN c
    ELSE IF /\ HasReceivedUdpPacketsAtLastCloseSent(c)
            /\ HasNotReceivedNewPacketsSinceLastCloseSent(c)
    THEN c
    ELSE WriteClosePackets(c)

\* writeData with the connection open; SCOPE_EXIT runs on every return
WriteDataOpenAppDataFirst(c) ==
    MaybeInitiateKeyUpdate(
        [Bind(IF c.oneRttWriteCipher
              THEN WriteOneRttData(c, writeConnectionDataPacketsLimit) ELSE c,
              LAMBDA r3 :
           Bind(IF r3.handshakeWriteCipher
                THEN HandleWriteDataCommon(
                         r3, "Handshake",
                         Max(writeConnectionDataPacketsLimit - Len(r3.wire), 0)).conn
                ELSE r3,
                LAMBDA r2 :
             IF r2.initialWriteCipher
             THEN HandleWriteDataCommon(
                      r2, "Initial",
                      Max(writeConnectionDataPacketsLimit - Len(r2.wire), 0)).conn
             ELSE r2))
           EXCEPT !.numProbePackets = [sp \in Spaces |-> 0]])

\* writeData with the connection open, the three packet-number spaces in
\* turn
WriteDataOpenSpaces(c) ==
    Bind(IF c.initialWriteCipher
         THEN HandleWriteDataCommon(c, "Initial",
                                    writeConnectionDataPacketsLimit)
         ELSE [conn |-> c, packetsWritten |-> 0, probesWritten |-> 0],
         LAMBDA r1 :
      IF /\ c.initialWriteCipher
         /\ writeConnectionDataPacketsLimit - r1.packetsWritten = 0
         /\ ~AnyProbePackets(r1.conn)
      THEN r1.conn
      ELSE Bind(IF r1.conn.handshakeWriteCipher
                THEN HandleWriteDataCommon(
                         r1.conn, "Handshake",
                         writeConnectionDataPacketsLimit - r1.packetsWritten)
                ELSE [conn |-> r1.conn, packetsWritten |-> 0,
                      probesWritten |-> 0],
                LAMBDA r2 :
           IF /\ r1.conn.handshakeWriteCipher
              /\ writeConnectionDataPacketsLimit
                     - r1.packetsWritten - r2.packetsWritten = 0
              /\ ~AnyProbePackets(r2.conn)
           THEN r2.conn
           ELSE IF r2.conn.oneRttWriteCipher
           THEN WriteOneRttData(
                    r2.conn,
                    writeConnectionDataPacketsLimit
                        - r1.packetsWritten - r2.packetsWritten)
           ELSE r2.conn))

\* writeData with the connection open that leaves unused probe credit
WriteDataOpenKeepsProbeCredit(c) ==
    MaybeInitiateKeyUpdate(WriteDataOpenSpaces(c))

\* writeData with the connection open; SCOPE_EXIT runs on every return
WriteDataOpen(c) ==
    MaybeInitiateKeyUpdate(
        [WriteDataOpenSpaces(c) EXCEPT !.numProbePackets = [sp \in Spaces |-> 0]])

\* QuicServerTransport::writeData
WriteData(c) ==
    IF c.closed THEN WriteDataClosed(c) ELSE WriteDataOpen(c)

-----------------------------------------------------------------------------
(* The stream model: the application writes, the peer opens flow-control   *)
(* windows, packets are written, acknowledged and declared lost.           *)

FinWritten(st) ==
    st.finalWriteOffset # None /\ st.currentWriteOffset > st.finalWriteOffset

\* the bytes the application has handed to a stream so far
AppBytes(st) ==
    st.currentWriteOffset + st.pendingWrites - (IF FinWritten(st) THEN 1 ELSE 0)

\* streams are opened in the order of their ids
Opened(st) ==
    st.pendingWrites > 0 \/ st.currentWriteOffset > 0 \/ st.finalWriteOffset # None

RECURSIVE SumOver(_, _)
SumOver(c, ids) ==
    IF ids = {} THEN 0
    ELSE LET s == CHOOSE x \in ids : TRUE
         IN  AppBytes(c.streams[s]) + SumOver(c, ids \ {s})

TotalAppBytes(c) == SumOver(c, StreamIds)

StartWrite(c) ==
    [c EXCEPT !.wire = <<>>, !.probesToSend = 0, !.noWriteReason = "NO_WRITE",
              !.packetLimitWrapped = FALSE]

Hist(numLost) == [numLost |-> numLost]

Init ==
    /\ conn = NewConn(TRUE, MaxAppBytes - 1, MaxAppBytes - 1)
    /\ hist = Hist(0)
    /\ lossBuf = <<>>
    /\ lossBufMetas = <<>>

\* writeDataToQuicStream: n more bytes, with or without the end of the stream
AppWrite(s, n, eof) ==
    LET st == conn.streams[s]
    IN  /\ Running(conn)
        /\ st.finalWriteOffset = None
        /\ n > 0 \/ eof
        /\ \A t \in StreamIds : t < s => Opened(conn.streams[t])
        /\ TotalAppBytes(conn) + n <= MaxAppBytes
        /\ conn' = [StartWrite(conn) EXCEPT
                      !.streams[s].pendingWrites = @ + n,
                      !.streams[s].finalWriteOffset =
                          IF eof THEN st.currentWriteOffset + st.pendingWrites + n
                          ELSE @]
        /\ hist' = Hist(hist.numLost)
        /\ UNCHANGED <<lossBuf, lossBufMetas>>

\* a MAX_STREAM_DATA frame from the peer
PeerMaxStreamData(s) ==
    /\ Running(conn)
    /\ conn.streams[s].peerAdvertisedMaxOffset < MaxAppBytes
    /\ conn' = [StartWrite(conn) EXCEPT !.streams[s].peerAdvertisedMaxOffset = @ + 1]
    /\ hist' = Hist(hist.numLost)
    /\ UNCHANGED <<lossBuf, lossBufMetas>>

\* a MAX_DATA frame from the peer
PeerMaxData ==
    /\ Running(conn)
    /\ conn.peerAdvertisedMaxOffset < MaxAppBytes
    /\ conn' = [StartWrite(conn) EXCEPT !.peerAdvertisedMaxOffset = @ + 1]
    /\ hist' = Hist(hist.numLost)
    /\ UNCHANGED <<lossBuf, lossBufMetas>>

\* one turn of the write loop with new stream data
WriteNewData(s, len) ==
    /\ Running(conn)
    /\ conn.totalPacketsSent < MaxPackets
    /\ HasWritableDataCheck(conn.streams[s])
    /\ CanWriteNewData(conn, s, len)
    /\ conn' = WritePacket(StartWrite(conn), {},
                   [space |-> AppData, packetNum |-> GetNextPacketNum(conn, AppData),
                    frames |-> <<NewDataFrame(conn, s, len)>>])
    /\ hist' = Hist(hist.numLost)
    /\ UNCHANGED <<lossBuf, lossBufMetas>>

\* one turn of the write loop with data from the loss buffer
WriteRetransmission(s, len) ==
    /\ Running(conn)
    /\ CanWriteLoss(conn, s, len)
    /\ conn' = WritePacket(StartWrite(conn), {},
                   [space |-> AppData, packetNum |-> GetNextPacketNum(conn, AppData),
                    frames |-> <<LossFrame(conn, s, len)>>])
    /\ hist' = Hist(hist.numLost)
    /\ UNCHANGED <<lossBuf, lossBufMetas>>

\* a PTO: the probe writer runs for the AppData space
WriteProbes(n) ==
    /\ Running(conn)
    /\ conn.totalPacketsSent < MaxPackets
    /\ conn.outstandings # <<>>
    /\ conn' = WriteProbingDataToSocket(StartWrite(conn), AppData, n)
    /\ hist' = Hist(hist.numLost)
    /\ UNCHANGED <<lossBuf, lossBufMetas>>

\* the peer acknowledges an outstanding packet
AckPacket(i) ==
    /\ Running(conn)
    /\ conn' = OnPacketAcked(StartWrite(conn), i)
    /\ hist' = Hist(hist.numLost)
    /\ UNCHANGED <<lossBuf, lossBufMetas>>

\* the loss detector declares an outstanding packet lost
LosePacket(i) ==
    /\ Running(conn)
    /\ hist.numLost < MaxLosses
    /\ conn' = OnPacketLost(StartWrite(conn), i)
    /\ hist' = Hist(hist.numLost + 1)
    /\ UNCHANGED <<lossBuf, lossBufMetas>>

WriteLoss == \E s \in StreamIds, len \in 0..MaxAppBytes : WriteRetransmission(s, len)

\* the application uses one stream
Next ==
    \/ \E s \in FirstStream, n \in 0..MaxAppBytes, eof \in BOOLEAN : AppWrite(s, n, eof)
    \/ \E s \in FirstStream : PeerMaxStreamData(s)
    \/ PeerMaxData
    \/ \E s \in StreamIds, len \in 0..MaxAppBytes : WriteNewData(s, len)
    \/ WriteLoss
    \/ \E n \in 1..kPacketToSendForPTO : WriteProbes(n)
    \/ \E i \in 1..Len(conn.outstandings) : AckPacket(i)
    \/ \E i \in 1..Len(conn.outstandings) : LosePacket(i)

Spec == Init /\ [][Next]_vars

\* the application uses every stream
NextStreams ==
    \/ \E s \in StreamIds, n \in 0..MaxAppBytes, eof \in BOOLEAN : AppWrite(s, n, eof)
    \/ \E s \in StreamIds : PeerMaxStreamData(s)
    \/ PeerMaxData
    \/ \E s \in StreamIds, len \in 0..MaxAppBytes : WriteNewData(s, len)
    \/ WriteLoss
    \/ \E n \in 1..kPacketToSendForPTO : WriteProbes(n)
    \/ \E i \in 1..Len(conn.outstandings) : AckPacket(i)
    \/ \E i \in 1..Len(conn.outstandings) : LosePacket(i)

SpecStreams == Init /\ [][NextStreams]_vars

-----------------------------------------------------------------------------
(* What a stream has sent, read off its buffers *)

BufPositions(entries) == UNION {Positions(e) : e \in entries}

RtxPositions(st) == BufPositions(st.retransmissionBuffer)

LossPositions(st) == BufPositions(SeqToSet(st.lossBuffer))

\* every position (data byte or FIN) the stream has written at least once
SentPositions(st) == st.ackedIntervals \cup RtxPositions(st) \cup LossPositions(st)

\* the data bytes among them
DataSent(st) ==
    {p \in SentPositions(st) : st.finalWriteOffset = None \/ p < st.finalWriteOffset}

RECURSIVE SumDataSent(_, _)
SumDataSent(c, ids) ==
    IF ids = {} THEN 0
    ELSE LET s == CHOOSE x \in ids : TRUE
         IN  Cardinality(DataSent(c.streams[s])) + SumDataSent(c, ids \ {s})

\* the kinds of the stream frames of the packets just written
WireKinds(c) == UNION {SeqToSet(c.wire[k].kinds) : k \in 1..Len(c.wire)}

NoFaults == ~Faulted(conn)

-----------------------------------------------------------------------------
\* C1: whatever has been written, retransmitted, cloned, lost and acked, the
\* data bytes sent on a stream stay below the stream's peerAdvertisedMaxOffset,
\* the data bytes sent over all streams stay within the connection's
\* peerAdvertisedMaxOffset, and the connection's counters of new stream bytes
\* count each byte once: retransmitted and cloned bytes are not counted again.
C1_FlowControlNeverExceeded ==
    /\ \A s \in StreamIds :
          LET st == conn.streams[s]
          IN  /\ \A p \in DataSent(st) : p < st.peerAdvertisedMaxOffset
              /\ Cardinality(DataSent(st)) <= st.peerAdvertisedMaxOffset
    /\ SumDataSent(conn, StreamIds) <= conn.peerAdvertisedMaxOffset
    /\ conn.sumCurWriteOffset = SumDataSent(conn, StreamIds)
    /\ conn.totalNewStreamBytesSent = SumDataSent(conn, StreamIds)

\* a stream blocked by its own window on a connection blocked by the
\* connection window, right after a retransmission
C1_Witness ==
    /\ \E s \in StreamIds :
          /\ conn.streams[s].pendingWrites > 0
          /\ Cardinality(DataSent(conn.streams[s])) = conn.streams[s].peerAdvertisedMaxOffset
    /\ SumDataSent(conn, StreamIds) = conn.peerAdvertisedMaxOffset
    /\ "retx" \in WireKinds(conn)

-----------------------------------------------------------------------------
\* the data bytes of a stream that have been acknowledged
AckedData(st) ==
    {p \in st.ackedIntervals : st.finalWriteOffset = None \/ p < st.finalWriteOffset}

\* C3: a probe's clone is outstanding under the same ClonedPacketIdentifier
\* as the packet it was cloned from, which carries the same frames, and the
\* ACKs of the two count the stream bytes they carry as delivered once: the
\* bytes delivered on a stream are its distinct acknowledged data bytes.
C3_CloneDeliveredOnce ==
    /\ \A k \in 1..Len(conn.wire) :
          LET w == conn.wire[k]
          IN  w.cloneOf # {} =>
                /\ \E i \in 1..Len(conn.outstandings) :
                      /\ conn.outstandings[i].space = w.space
                      /\ conn.outstandings[i].packetNum = w.packetNum
                      /\ conn.outstandings[i].maybeClonedPacketIdentifier = w.cloneOf
                /\ \E i \in 1..Len(conn.outstandings) :
                      /\ conn.outstandings[i].space = w.space
                      /\ conn.outstandings[i].packetNum < w.packetNum
                      /\ conn.outstandings[i].maybeClonedPacketIdentifier = w.cloneOf
                      /\ conn.outstandings[i].frames = w.frames
    /\ \A s \in StreamIds :
          conn.streams[s].deliveredBytes = Cardinality(AckedData(conn.streams[s]))

\* a packet is still outstanding whose ClonedPacketIdentifier has been
\* consumed by the ACK of the other packet of the pair
C3_Witness ==
    \E i \in 1..Len(conn.outstandings) :
        LET pkt == conn.outstandings[i]
        IN  /\ Processed(conn, pkt)
            /\ \E j \in 1..Len(pkt.frames) :
                  LET f == pkt.frames[j]
                  IN  /\ f.type = "stream" /\ f.len > 0
                      /\ f.offset .. (f.offset + f.len - 1)
                            \subseteq conn.streams[f.streamId].ackedIntervals
                      /\ conn.streams[f.streamId].deliveredBytes >= f.len

-----------------------------------------------------------------------------
\* the positions a stream has written: its data bytes and, once sent, its FIN
Written(st) == 0 .. (st.currentWriteOffset - 1)

NoOverlap(st) ==
    \A e1, e2 \in st.retransmissionBuffer :
        e1 # e2 => e1.offset # e2.offset /\ Positions(e1) \cap Positions(e2) = {}

\* C6 as stated: every sent and unacknowledged segment is in
\* retransmissionBuffer, and no two of its entries overlap.
C6_AllUnackedInRetransmissionBuffer ==
    \A s \in StreamIds :
        LET st == conn.streams[s]
        IN  /\ Written(st) \ st.ackedIntervals \subseteq RtxPositions(st)
            /\ NoOverlap(st)

\* C6: every sent, unacknowledged segment that is not waiting in lossBuffer
\* after a loss declaration is in retransmissionBuffer under its starting
\* offset, retransmissionBuffer holds nothing else, and no two of its entries
\* cover a common stream offset.
C6_UnackedInRetransmissionOrLossBuffer ==
    \A s \in StreamIds :
        LET st == conn.streams[s]
        IN  /\ RtxPositions(st) =
                  Written(st) \ (st.ackedIntervals \cup LossPositions(st))
            /\ LossPositions(st) \subseteq Written(st) \ st.ackedIntervals
            /\ NoOverlap(st)

\* one stream with a segment in each buffer, right after a retransmission
C6_Witness ==
    \E s \in StreamIds :
        /\ conn.streams[s].retransmissionBuffer # {}
        /\ conn.streams[s].lossBuffer # <<>>
        /\ "retx" \in WireKinds(conn)

-----------------------------------------------------------------------------
\* C8: once finalWriteOffset is set, currentWriteOffset is at most
\* finalWriteOffset + 1, and it is equal to it only when the FIN has been
\* written.
C8_WriteOffsetBound ==
    \A s \in StreamIds :
        LET st == conn.streams[s]
        IN  st.finalWriteOffset # None =>
              /\ st.currentWriteOffset <= st.finalWriteOffset + 1
              /\ st.currentWriteOffset = st.finalWriteOffset + 1
                    => st.finalWriteOffset \in SentPositions(st)

\* the FIN of a stream with data has been written, and a lost segment of the
\* stream has just been written again
C8_Witness ==
    \E s \in StreamIds :
        /\ conn.streams[s].finalWriteOffset > 0
        /\ conn.streams[s].currentWriteOffset = conn.streams[s].finalWriteOffset + 1
        /\ \E k \in 1..Len(conn.wire) :
              /\ conn.wire[k].frames[1].streamId = s
              /\ conn.wire[k].kinds[1] = "retx"

-----------------------------------------------------------------------------
\* the stream frames of the packets just written that came from a loss buffer
RetxFramesOnWire(c) ==
    UNION {{c.wire[k].frames[j] : j \in {i \in 1..Len(c.wire[k].frames) :
                                            c.wire[k].kinds[i] = "retx"}}
           : k \in 1..Len(c.wire)}

RetransmissionStep ==
    \A f \in RetxFramesOnWire(conn') :
        LET st == conn.streams[f.streamId]
            stAfter == conn'.streams[f.streamId]
            written == [offset |-> f.offset, len |-> f.len, eof |-> f.fin]
        IN  \* the packet is the only one of the step, so conn is the state it was
            \* written in
            /\ Len(conn'.wire) = 1 /\ Len(conn'.wire[1].frames) = 1
            \* the frame covers lost bytes, from the offset of a lost segment
            /\ Positions(written) # {}
            /\ Positions(written) \subseteq LossPositions(st)
            /\ \E i \in 1..Len(st.lossBuffer) : st.lossBuffer[i].offset = f.offset
            \* the range moves to retransmissionBuffer under that offset
            /\ written \notin st.retransmissionBuffer
            /\ stAfter.retransmissionBuffer = st.retransmissionBuffer \cup {written}
            \* the rest of the loss buffer stays where it was
            /\ LossPositions(stAfter) = LossPositions(st) \ Positions(written)
            /\ \A i \in 1..Len(stAfter.lossBuffer) :
                  stAfter.lossBuffer[i].eof =>
                      stAfter.lossBuffer[i].offset + stAfter.lossBuffer[i].len
                          = st.finalWriteOffset
            \* FIN goes with the frame that ends at the final offset
            /\ f.fin => f.offset + f.len = st.finalWriteOffset
            /\ stAfter.currentWriteOffset = st.currentWriteOffset

\* C9: a retransmitted STREAM frame covers lost bytes at their original
\* offsets, its range moves from lossBuffer to retransmissionBuffer under that
\* offset, what it leaves behind stays in lossBuffer at its original offset,
\* and the FIN of a lost segment leaves lossBuffer with the frame that ends at
\* finalWriteOffset and with no other.
C9_RetransmissionPreservesOffsets == [][RetransmissionStep]_vars

\* part of a lost segment has just been retransmitted; the rest, with the
\* FIN, is still in the loss buffer right behind it
C9_Witness ==
    \E f \in RetxFramesOnWire(conn) :
        LET lb == conn.streams[f.streamId].lossBuffer
        IN  /\ f.len > 0
            /\ lb # <<>>
            /\ lb[1].offset = f.offset + f.len
            /\ lb[1].eof

-----------------------------------------------------------------------------
\* the interval updateAckedIntervals is to record for a buffer
AckedInterval(e) ==
    IF e.eof THEN e.offset .. (e.offset + e.len) ELSE e.offset .. (e.offset + e.len - 1)

\* a step in which an outstanding packet is acknowledged
IsAckStep ==
    Len(conn'.outstandings) < Len(conn.outstandings) /\ hist' = hist

AckedIntervalsStep ==
    \A s \in StreamIds :
        LET st == conn.streams[s]
            stAfter == conn'.streams[s]
            acked == st.retransmissionBuffer \ stAfter.retransmissionBuffer
        IN  /\ stAfter.fault = NoFault
            /\ IF IsAckStep
               THEN stAfter.ackedIntervals =
                        st.ackedIntervals \cup UNION {AckedInterval(e) : e \in acked}
               ELSE stAfter.ackedIntervals = st.ackedIntervals
            /\ (/\ FinWritten(stAfter)
                /\ stAfter.retransmissionBuffer = {}
                /\ stAfter.lossBuffer = <<>>)
                  => stAfter.ackedIntervals = 0 .. stAfter.finalWriteOffset

\* C10: updateAckedIntervals records [offset, offset+len-1] for a buffer
\* without eof and [offset, offset+len] for a buffer with eof; once all data
\* and the FIN of a stream are acknowledged, ackedIntervals covers
\* 0 .. finalWriteOffset.
C10_AckedIntervalsCountFin == [][AckedIntervalsStep]_vars

\* a stream with data whose bytes and FIN have all been acknowledged
C10_Witness ==
    \E s \in StreamIds :
        /\ conn.streams[s].finalWriteOffset > 0
        /\ conn.streams[s].ackedIntervals = 0 .. conn.streams[s].finalWriteOffset

-----------------------------------------------------------------------------
(* The stream model with a writer that keeps running: whenever a loss      *)
(* buffer holds data the write loop is eventually run for it.  The peer's  *)
(* windows are open from the start and no PTO fires.                       *)

InitFair ==
    /\ conn = NewConn(TRUE, MaxAppBytes, MaxAppBytes)
    /\ hist = Hist(0)
    /\ lossBuf = <<>>
    /\ lossBufMetas = <<>>

NextFair ==
    \/ \E s \in FirstStream, n \in 0..MaxAppBytes, eof \in BOOLEAN : AppWrite(s, n, eof)
    \/ \E s \in StreamIds, len \in 0..MaxAppBytes : WriteNewData(s, len)
    \/ WriteLoss
    \/ \E i \in 1..Len(conn.outstandings) : AckPacket(i)
    \/ \E i \in 1..Len(conn.outstandings) : LosePacket(i)

SpecFair == InitFair /\ [][NextFair]_vars /\ WF_vars(WriteLoss)

\* a loss declaration moves what it takes out of retransmissionBuffer into
\* lossBuffer, and what leaves lossBuffer goes back to retransmissionBuffer
LostSegmentsKept ==
    \A s \in StreamIds :
        LET st == conn.streams[s]
            stAfter == conn'.streams[s]
        IN  /\ hist'.numLost > hist.numLost =>
                  RtxPositions(st) \ RtxPositions(stAfter) \subseteq LossPositions(stAfter)
            /\ LossPositions(st) \ LossPositions(stAfter) \subseteq RtxPositions(stAfter)

-----------------------------------------------------------------------------
(* The packet model: packets of every kind in the three packet-number      *)
(* spaces.  The application has one byte to send on stream 0.              *)

PktFrameLists ==
    { <<CtlFrame("ack")>>,
      <<CtlFrame("ack"), CtlFrame("padding")>>,
      <<CtlFrame("datagram")>>,
      <<CtlFrame("ping")>>,
      <<CtlFrame("max_data"), CtlFrame("ack")>> }

InitPkt ==
    /\ \E canSendAck \in BOOLEAN :
         conn = [NewConn(canSendAck, MaxAppBytes, MaxAppBytes)
                   EXCEPT !.streams[0].pendingWrites = 1]
    /\ hist = Hist(0)
    /\ lossBuf = <<>>
    /\ lossBufMetas = <<>>

\* one turn of the write loop with frames other than STREAM
PktWrite(pnSpace, frames) ==
    /\ Running(conn)
    /\ conn.totalPacketsSent < MaxCtlPackets
    /\ conn' = WritePacket(StartWrite(conn), {},
                   [space |-> pnSpace, packetNum |-> GetNextPacketNum(conn, pnSpace),
                    frames |-> frames])
    /\ UNCHANGED <<hist, lossBuf, lossBufMetas>>

\* a PTO in any space
PktProbe(pnSpace, n) ==
    /\ Running(conn)
    /\ conn.totalPacketsSent < MaxCtlPackets
    /\ conn' = WriteProbingDataToSocket(StartWrite(conn), pnSpace, n)
    /\ UNCHANGED <<hist, lossBuf, lossBufMetas>>

\* the transport closes and writes its close packet
PktClose(pnSpace) ==
    /\ Running(conn)
    /\ conn' = [WriteCloseCommon(StartWrite(conn), pnSpace, NoCloseDetails) EXCEPT !.closed = TRUE]
    /\ UNCHANGED <<hist, lossBuf, lossBufMetas>>

NextPkt ==
    \/ \E pnSpace \in Spaces, frames \in PktFrameLists : PktWrite(pnSpace, frames)
    \/ \E s \in StreamIds, len \in 0..MaxAppBytes : WriteNewData(s, len)
    \/ \E pnSpace \in Spaces, n \in 1..kPacketToSendForPTO : PktProbe(pnSpace, n)
    \/ \E pnSpace \in Spaces : PktClose(pnSpace)
    \/ \E i \in 1..Len(conn.outstandings) : AckPacket(i)

SpecPkt == InitPkt /\ [][NextPkt]_vars

-----------------------------------------------------------------------------
\* the packet numbers just written in a space, in the order written
WireNums(c, pnSpace) ==
    LET inSpace(w) == w.space = pnSpace
        ws == SelectSeq(c.wire, inSpace)
    IN  [k \in 1..Len(ws) |-> ws[k].packetNum]

StrictlyIncreasing(nums) ==
    \A i, j \in 1..Len(nums) : i < j => nums[i] < nums[j]

OutstandingsSortedPerSpace(c) ==
    \A i, j \in 1..Len(c.outstandings) :
        (i < j /\ c.outstandings[i].space = c.outstandings[j].space)
            => c.outstandings[i].packetNum < c.outstandings[j].packetNum

PacketNumbersStep ==
    /\ \A pnSpace \in Spaces :
          LET nums == WireNums(conn', pnSpace)
          IN  IF nums = <<>>
              THEN conn'.lastSent[pnSpace] = conn.lastSent[pnSpace]
              ELSE /\ conn.lastSent[pnSpace] < nums[1]
                   /\ StrictlyIncreasing(nums)
                   /\ conn'.lastSent[pnSpace] = nums[Len(nums)]
                   /\ nums[Len(nums)] < conn'.nextPacketNum[pnSpace]
    /\ OutstandingsSortedPerSpace(conn')

\* C4: in each packet-number space every packet written (new data, control
\* frames, a probe's clone after the number the probe skips, a close packet)
\* has a packet number greater than that of every packet written before it in
\* the space, and the outstanding packets of a space are listed in strictly
\* increasing packet-number order.
C4_PacketNumbersIncrease == [][PacketNumbersStep]_vars

\* a probe has skipped a packet number and written a clone, while packets of
\* two spaces with the same packet number are outstanding
C4_Witness ==
    /\ \E k \in 1..Len(conn.wire) :
          /\ conn.wire[k].cloneOf # {}
          /\ \E i \in 1..Len(conn.outstandings) :
                /\ conn.outstandings[i].space = conn.wire[k].space
                /\ conn.wire[k].cloneOf =
                      {<<conn.outstandings[i].space, conn.outstandings[i].packetNum>>}
                /\ conn.outstandings[i].packetNum + 2 <= conn.wire[k].packetNum
    /\ \E i, j \in 1..Len(conn.outstandings) :
          /\ conn.outstandings[i].space # conn.outstandings[j].space
          /\ conn.outstandings[i].packetNum = conn.outstandings[j].packetNum

-----------------------------------------------------------------------------
\* the clones among the packets of a probe write, and the packets the probe
\* scheduler wrote after them
ProbeClones(c) == {k \in 1..Len(c.wire) : c.wire[k].cloneOf # {}}

ProbeFallbacks(c) == {k \in 1..Len(c.wire) : c.wire[k].cloneOf = {}}

AckEliciting(frames) ==
    \E i \in 1..Len(frames) :
        frames[i].type \notin {"ack", "padding", "connection_close"}

\* a clone carries the frames of an outstanding packet of its own space that
\* has the same ClonedPacketIdentifier
ClonesOutstanding(c, w) ==
    \E i \in 1..Len(c.outstandings) :
        /\ c.outstandings[i].space = w.space
        /\ c.outstandings[i].packetNum < w.packetNum
        /\ c.outstandings[i].maybeClonedPacketIdentifier = w.cloneOf
        /\ c.outstandings[i].frames = w.frames

ProbesWellFormed(c) ==
    /\ c.probesToSend <= kPacketToSendForPTO
    /\ Len(c.wire) <= c.probesToSend
    /\ \A k \in 1..Len(c.wire) :
          /\ AckEliciting(c.wire[k].frames)
          /\ \E i \in 1..Len(c.outstandings) :
                /\ c.outstandings[i].space = c.wire[k].space
                /\ c.outstandings[i].packetNum = c.wire[k].packetNum
    /\ \A k \in ProbeClones(c) : ClonesOutstanding(c, c.wire[k])
    /\ \A k \in ProbeFallbacks(c) :
          /\ \E i \in 1..Len(c.wire[k].frames) :
                c.wire[k].frames[i].type \in {"immediate_ack", "ping"}
          /\ \A j \in ProbeClones(c) : j < k

-----------------------------------------------------------------------------
IsOutstanding(c, w) ==
    \E i \in 1..Len(c.outstandings) :
        /\ c.outstandings[i].space = w.space
        /\ c.outstandings[i].packetNum = w.packetNum
        /\ c.outstandings[i].frames = w.frames

FrameTypes(frames) == {frames[i].type : i \in 1..Len(frames)}

\* C5 as stated: a packet just written is outstanding exactly when it carries
\* a frame other than ACK, PADDING or CONNECTION_CLOSE.
C5_OutstandingIffNotAckPaddingClose ==
    \A k \in 1..Len(conn.wire) :
        IsOutstanding(conn, conn.wire[k])
            <=> FrameTypes(conn.wire[k].frames)
                    \ {"ack", "padding", "connection_close"} # {}

\* C5: a packet just written is in the outstanding-packet list exactly when
\* it carries a frame other than ACK, PADDING, DATAGRAM or CONNECTION_CLOSE;
\* whether it is listed or not, it has taken a packet number of its space.
C5_OutstandingIffRetransmittable ==
    \A k \in 1..Len(conn.wire) :
        /\ IsOutstanding(conn, conn.wire[k])
              <=> FrameTypes(conn.wire[k].frames)
                      \ {"ack", "padding", "datagram", "connection_close"} # {}
        /\ conn.wire[k].packetNum < conn.nextPacketNum[conn.wire[k].space]

\* a packet with nothing but a DATAGRAM frame has been written after a packet
\* that is outstanding: it took the next packet number and is not listed
C5_Witness ==
    \E k \in 1..Len(conn.wire) :
        /\ FrameTypes(conn.wire[k].frames) = {"datagram"}
        /\ conn.wire[k].packetNum > 0
        /\ conn.nextPacketNum[conn.wire[k].space] = conn.wire[k].packetNum + 1
        /\ ~IsOutstanding(conn, conn.wire[k])
        /\ \E i \in 1..Len(conn.outstandings) :
              conn.outstandings[i].space = conn.wire[k].space

-----------------------------------------------------------------------------
(* The loss-buffer model: insertIntoLossBuffer and insertIntoLossBufMeta    *)
(* called with segments of a stream of MaxLossOffset bytes, in any order.   *)
(* The segments do not overlap each other; the one that ends the stream     *)
(* may carry the FIN.                                                       *)

Segments ==
    {[offset |-> o, len |-> l, eof |-> e] :
        o \in 0..MaxLossOffset, l \in 0..MaxLossOffset, e \in BOOLEAN} 

IsSegment(seg) ==
    /\ seg.offset + seg.len <= MaxLossOffset
    /\ seg.len > 0 \/ seg.eof
    /\ seg.eof => seg.offset + seg.len = MaxLossOffset

InitLossBuf ==
    /\ conn = NewConn(FALSE, 0, 0)
    /\ hist = [inserted |-> {}, insertedMeta |-> {}]
    /\ lossBuf = <<>>
    /\ lossBufMetas = <<>>

InsertLossBuffer(seg) ==
    /\ IsSegment(seg)
    /\ Positions(seg) \cap hist.inserted = {}
    /\ lossBuf' = InsertIntoLossBuffer(lossBuf, seg)
    /\ hist' = [hist EXCEPT !.inserted = @ \cup Positions(seg)]
    /\ UNCHANGED <<conn, lossBufMetas>>

InsertLossBufMeta(seg) ==
    /\ IsSegment(seg)
    /\ Positions(seg) \cap hist.insertedMeta = {}
    /\ lossBufMetas' = InsertIntoLossBufMeta(lossBufMetas, seg)
    /\ hist' = [hist EXCEPT !.insertedMeta = @ \cup Positions(seg)]
    /\ UNCHANGED <<conn, lossBuf>>

NextLossBuf ==
    \/ \E seg \in Segments : InsertLossBuffer(seg)
    \/ \E seg \in Segments : InsertLossBufMeta(seg)

SpecLossBuf == InitLossBuf /\ [][NextLossBuf]_vars

SortedByOffset(buffer) ==
    \A i, j \in 1..Len(buffer) : i < j => buffer[i].offset < buffer[j].offset

NoContiguousNeighbours(buffer) ==
    \A i \in 1..(Len(buffer) - 1) :
        buffer[i].offset + buffer[i].len # buffer[i + 1].offset

InsertedBehind(before, after, added) ==
    LET first == CHOOSE p \in added : \A q \in added : p <= q
        behind == {i \in 1..Len(before) : before[i].offset + before[i].len = first}
        offsets(buffer) == {buffer[i].offset : i \in 1..Len(buffer)}
    IN  added # {} =>
          IF behind # {}
          THEN \* the entry that ends where the segment starts takes it in
               /\ Len(after) = Len(before)
               /\ offsets(after) = offsets(before)
          ELSE \* the segment becomes an entry of its own, whatever follows it
               /\ Len(after) = Len(before) + 1
               /\ offsets(after) = offsets(before) \cup {first}

KeepsSegments(buffer, inserted) ==
    /\ SortedByOffset(buffer)
    /\ BufPositions(SeqToSet(buffer)) = inserted
    /\ \A i, j \in 1..Len(buffer) :
          i # j => Positions(buffer[i]) \cap Positions(buffer[j]) = {}

LossBufferStep ==
    /\ KeepsSegments(lossBuf', hist'.inserted)
    /\ KeepsSegments(lossBufMetas', hist'.insertedMeta)
    /\ InsertedBehind(lossBuf, lossBuf', hist'.inserted \ hist.inserted)
    /\ InsertedBehind(lossBufMetas, lossBufMetas',
                      hist'.insertedMeta \ hist.insertedMeta)

-----------------------------------------------------------------------------
(* The socket model: the stream model on a socket whose writes may fail.   *)

\* the batch writer's flush starts or stops failing
SocketChanges ==
    /\ Running(conn)
    /\ conn' = [StartWrite(conn) EXCEPT !.writeSuccess = ~@]
    /\ hist' = Hist(hist.numLost)
    /\ UNCHANGED <<lossBuf, lossBufMetas>>

NextSock ==
    \/ \E s \in FirstStream, n \in 0..MaxAppBytes, eof \in BOOLEAN : AppWrite(s, n, eof)
    \/ \E s \in StreamIds, len \in 0..MaxAppBytes : WriteNewData(s, len)
    \/ WriteLoss
    \/ \E n \in 1..kPacketToSendForPTO : WriteProbes(n)
    \/ \E i \in 1..Len(conn.outstandings) : AckPacket(i)
    \/ \E i \in 1..Len(conn.outstandings) : LosePacket(i)
    \/ SocketChanges

SpecSock == InitFair /\ [][NextSock]_vars

\* the stream positions (data bytes and FIN) a STREAM frame carries
FramePositions(f) == Positions([offset |-> f.offset, len |-> f.len, eof |-> f.fin])

\* the bytes of the frames of a packet that handleStreamWritten took as new
RECURSIVE NewBytesInFrames(_, _)
NewBytesInFrames(frames, kinds) ==
    IF frames = <<>> THEN 0
    ELSE (IF kinds[1] = "new" THEN frames[1].len ELSE 0)
           + NewBytesInFrames(Tail(frames), Tail(kinds))

RECURSIVE NewBytesOnWire(_)
NewBytesOnWire(wire) ==
    IF wire = <<>> THEN 0
    ELSE NewBytesInFrames(wire[1].frames, wire[1].kinds) + NewBytesOnWire(Tail(wire))

SocketFailureStep ==
    conn'.noWriteReason = "SOCKET_FAILURE" =>
        /\ conn'.wire # <<>>
        /\ conn'.totalPacketsSent = conn.totalPacketsSent + Len(conn'.wire)
        /\ conn'.totalNewStreamBytesSent
              = conn.totalNewStreamBytesSent + NewBytesOnWire(conn'.wire)
        /\ conn'.sumCurWriteOffset
              = conn.sumCurWriteOffset + NewBytesOnWire(conn'.wire)
        /\ \A k \in 1..Len(conn'.wire) :
              LET w == conn'.wire[k]
              IN  /\ conn.nextPacketNum[w.space] <= w.packetNum
                  /\ w.packetNum < conn'.nextPacketNum[w.space]
                  /\ \E i \in 1..Len(conn'.outstandings) :
                        /\ conn'.outstandings[i].space = w.space
                        /\ conn'.outstandings[i].packetNum = w.packetNum
                        /\ conn'.outstandings[i].frames = w.frames
                  /\ \A s \in StreamIds :
                        LET here(i) == w.frames[i].type = "stream"
                                          /\ w.frames[i].streamId = s
                            moved == UNION {FramePositions(w.frames[i]) :
                                       i \in {j \in 1..Len(w.frames) :
                                                here(j) /\ w.kinds[j] \in {"new", "retx"}}}
                            fresh == UNION {FramePositions(w.frames[i]) :
                                       i \in {j \in 1..Len(w.frames) :
                                                here(j) /\ w.kinds[j] = "new"}}
                        IN  /\ moved \subseteq RtxPositions(conn'.streams[s])
                            /\ moved \cap LossPositions(conn'.streams[s]) = {}
                            /\ \A p \in fresh :
                                  /\ conn.streams[s].currentWriteOffset <= p
                                  /\ p < conn'.streams[s].currentWriteOffset

\* C12: when the batch writer reports a failed write for a packet that was
\* built, the state recorded for the packet stays: its packet number is
\* consumed, it is counted in totalPacketsSent and listed as outstanding, the
\* stream bytes it carries have moved to retransmissionBuffer (new bytes past
\* the old currentWriteOffset, retransmitted bytes out of lossBuffer), and
\* the new bytes are counted in the connection's byte counters.
C12_FailedWriteKeepsState == [][SocketFailureStep]_vars

\* a packet with new stream data whose write failed was then declared lost,
\* and its data is in the loss buffer waiting to be sent again
C12_Witness ==
    /\ ~conn.writeSuccess
    /\ hist.numLost > 0
    /\ conn.totalPacketsSent = 1
    /\ \E s \in StreamIds : conn.streams[s].lossBuffer # <<>>

-----------------------------------------------------------------------------
(* The key update model: 1-RTT packets are written and acknowledged in     *)
(* either key phase, and either side may update the keys.                  *)

KeyHist(op, space, packetNum, ackPhase, pendingBefore) ==
    [op |-> op, space |-> space, packetNum |-> packetNum, ackPhase |-> ackPhase,
     pendingBefore |-> pendingBefore]

InitKey ==
    /\ \E enabled \in BOOLEAN, first \in {None, 0} :
          conn = [NewConn(FALSE, 0, 0) EXCEPT !.initiateKeyUpdate = enabled,
                                              !.firstKeyUpdatePacketCount = first]
    /\ hist = KeyHist("init", None, None, None, None)
    /\ lossBuf = <<>>
    /\ lossBufMetas = <<>>

\* the handshake layer has n more packets of 1-RTT crypto data to send
KeyCryptoData(n) ==
    /\ Running(conn)
    /\ conn.cryptoStreams[AppData].pendingWrites = 0
    /\ conn.totalPacketsSent + n <= MaxKeyPackets
    /\ conn' = [StartWrite(conn) EXCEPT !.cryptoStreams[AppData].pendingWrites = n]
    /\ hist' = KeyHist("data", None, None, None, None)
    /\ UNCHANGED <<lossBuf, lossBufMetas>>

KeyWriteData ==
    /\ Running(conn)
    /\ SchedulerHasData(conn, "frame", AppData)
    /\ conn' = WriteData(StartWrite(conn))
    /\ hist' = KeyHist("write", None, None, None, None)
    /\ UNCHANGED <<lossBuf, lossBufMetas>>

\* processAckFrame: a packet protected with key phase ackPhase acknowledges
\* the outstanding packet i
KeyAck(i, ackPhase) ==
    LET pkt == conn.outstandings[i]
        verified == MaybeVerifyPendingKeyUpdate(StartWrite(conn), pkt, ackPhase)
    IN  /\ Running(conn)
        /\ conn' = IF Faulted(verified) THEN verified
                   ELSE OnPacketAcked(verified, i)
        /\ hist' = KeyHist("ack", pkt.space, pkt.packetNum, ackPhase,
                           conn.oneRttWritePendingVerificationPacketNumber)
        /\ UNCHANGED <<lossBuf, lossBufMetas>>

\* the read codec starts or stops permitting a key update
ReadCodecChanges ==
    /\ Running(conn)
    /\ conn' = [StartWrite(conn) EXCEPT !.canInitiateKeyUpdate = ~@]
    /\ hist' = KeyHist("codec", None, None, None, None)
    /\ UNCHANGED <<lossBuf, lossBufMetas>>

\* a packet of the next read phase arrives: the peer has updated its keys
PeerKeyUpdate ==
    /\ Running(conn)
    /\ conn' = MaybeHandleIncomingKeyUpdate(AdvanceOneRttReadPhase(StartWrite(conn)))
    /\ hist' = KeyHist("peer", None, None, None, None)
    /\ UNCHANGED <<lossBuf, lossBufMetas>>

NextKey ==
    \/ \E n \in 1..writeConnectionDataPacketsLimit : KeyCryptoData(n)
    \/ KeyWriteData
    \/ \E i \in 1..Len(conn.outstandings), ackPhase \in {0, 1} : KeyAck(i, ackPhase)
    \/ ReadCodecChanges
    \/ PeerKeyUpdate

SpecKey == InitKey /\ [][NextKey]_vars

\* the 1-RTT packets of the write just made
OneRttOnWire(c) == {k \in 1..Len(c.wire) : c.wire[k].space = AppData}

VerifyStep ==
    /\ hist'.op = "ack" =>
          LET pending == conn.oneRttWritePendingVerificationPacketNumber
              covered == /\ hist'.space = AppData
                         /\ pending # None
                         /\ hist'.packetNum >= pending
          IN  IF ~covered
              THEN /\ conn'.fault = NoFault
                   /\ conn'.oneRttWritePendingVerification
                         = conn.oneRttWritePendingVerification
                   /\ conn'.oneRttWritePendingVerificationPacketNumber = pending
              ELSE IF hist'.ackPhase = conn.oneRttWritePhase
              THEN /\ conn'.fault = NoFault
                   /\ ~conn'.oneRttWritePendingVerification
                   /\ conn'.oneRttWritePendingVerificationPacketNumber = None
              ELSE conn'.fault = "CRYPTO_ERROR"
    /\ (/\ hist'.op = "write"
        /\ conn.oneRttWritePendingVerification
        /\ conn.oneRttWritePacketsSentInCurrentPhase = 0
        /\ OneRttOnWire(conn') # {}
        /\ conn'.oneRttWritePhase = conn.oneRttWritePhase)
          => LET k == CHOOSE x \in OneRttOnWire(conn') :
                         \A y \in OneRttOnWire(conn') : x <= y
             IN  conn'.oneRttWritePendingVerificationPacketNumber
                     = conn'.wire[k].packetNum

\* C13: after a key update was initiated the first 1-RTT packet sent in the
\* new write phase is remembered; when a 1-RTT packet numbered at or above it
\* is acknowledged by a packet in the current write key phase the pending
\* verification is cleared, when it is acknowledged by a packet in the other
\* phase the connection fails with CRYPTO_ERROR, and the acknowledgement of
\* any other packet leaves the pending verification as it is.
C13_KeyUpdateVerifiedInNewPhase == [][VerifyStep]_vars

\* a packet sent after a key update was acknowledged in the new phase, which
\* is KeyPhaseOne, and the verification is no longer pending
C13_Witness ==
    /\ hist.op = "ack"
    /\ hist.pendingBefore # None
    /\ hist.packetNum >= hist.pendingBefore
    /\ hist.ackPhase = 1
    /\ conn.oneRttWritePhase = 1
    /\ ~conn.oneRttWritePendingVerification
    /\ conn.fault = NoFault

\* the 1-RTT packets sent in the write phase when a write ends
SentInPhase == conn.oneRttWritePacketsSentInCurrentPhase
                   + Cardinality(OneRttOnWire(conn'))

KeyUpdateInitiated == conn'.oneRttWritePhase # conn.oneRttWritePhase

KeyUpdateEffects ==
    IF KeyUpdateInitiated
    THEN /\ conn'.oneRttWritePhase = 1 - conn.oneRttWritePhase
         /\ conn'.currentOneRttReadPhase = conn'.oneRttWritePhase
         /\ conn'.oneRttWritePacketsSentInCurrentPhase = 0
         /\ conn'.oneRttWritePendingVerification
         /\ conn'.oneRttWritePendingVerificationPacketNumber = None
         /\ conn'.firstKeyUpdatePacketCount = None
    ELSE /\ conn'.oneRttWritePacketsSentInCurrentPhase = SentInPhase
         /\ conn'.firstKeyUpdatePacketCount = conn.firstKeyUpdatePacketCount

\* C14 as stated: a write initiates a key update exactly when at least
\* keyUpdatePacketCountInterval (firstKeyUpdatePacketCount for the first
\* update) packets have been sent in the write phase and the read codec
\* permits it.
KeyUpdateAtCountStep ==
    hist'.op = "write" =>
        /\ KeyUpdateInitiated <=>
              (/\ conn.initiateKeyUpdate
               /\ SentInPhase >= PacketsBeforeNextUpdate(conn)
               /\ conn.canInitiateKeyUpdate)
        /\ KeyUpdateEffects

C14_KeyUpdateAtCount == [][KeyUpdateAtCountStep]_vars

KeyUpdatePastCountStep ==
    hist'.op = "write" =>
        /\ KeyUpdateInitiated <=>
              (/\ conn.initiateKeyUpdate
               /\ SentInPhase > PacketsBeforeNextUpdate(conn)
               /\ conn.canInitiateKeyUpdate)
        /\ KeyUpdateEffects

\* C14: with initiateKeyUpdate enabled a write ends by initiating a key
\* update exactly when more than keyUpdatePacketCountInterval
\* (firstKeyUpdatePacketCount for the first update) packets have been sent in
\* the current 1-RTT write phase and the read codec permits it; the update
\* flips the write phase, restarts the per-phase packet count at 0 and leaves
\* a verification pending.  Without initiateKeyUpdate no write does.
C14_KeyUpdatePastCount == [][KeyUpdatePastCountStep]_vars

\* the second key update of a connection has just been initiated: the write
\* phase is back to KeyPhaseZero
C14_Witness ==
    /\ hist.op = "write"
    /\ conn.initiateKeyUpdate
    /\ conn.oneRttWritePhase = 0
    /\ conn.oneRttWritePacketsSentInCurrentPhase = 0
    /\ conn.oneRttWritePendingVerification
    /\ conn.oneRttWritePendingVerificationPacketNumber = None
    /\ conn.totalPacketsSent = MaxKeyPackets

-----------------------------------------------------------------------------
(* The server model: an unvalidated client sends packets, the handshake    *)
(* layer installs ciphers and hands over crypto data, the PTO alarm fires, *)
(* writeData runs, and the connection is closed from either side.          *)

\* the last operation, and what closed the connection (None while open)
SrvHist(op, cause) == [op |-> op, cause |-> cause]

InitSrv ==
    /\ conn = [NewConn(FALSE, 0, 0) EXCEPT !.enableWritableBytesLimit = TRUE,
                                           !.writableBytesLimit = 0,
                                           !.receivedUdpPackets = 0,
                                           !.initialWriteCipher = TRUE,
                                           !.oneRttWriteCipher = FALSE]
    /\ hist = SrvHist("init", "open")
    /\ lossBuf = <<>>
    /\ lossBufMetas = <<>>

\* onServerReadData: a UDP packet of n bytes raises the amplification limit
\* by three times its size
OnServerReadData(c, n) ==
    [c EXCEPT !.totalBytesRecvd = @ + n,
              !.receivedUdpPackets = @ + 1,
              !.writableBytesLimit = IF @ = None THEN None ELSE @ + 3 * n]

\* the connection holds the write cipher of a packet-number space
SpaceHasCipher(c, sp) ==
    \/ (sp = "Initial" /\ c.initialWriteCipher)
    \/ (sp = "Handshake" /\ c.handshakeWriteCipher)
    \/ (sp = AppData /\ c.oneRttWriteCipher)

\* onPTOAlarm: probe credit for every space the connection has a cipher for
OnPTOAlarm(c) ==
    [c EXCEPT !.numProbePackets =
        [sp \in Spaces |->
            IF SpaceHasCipher(c, sp) THEN kPacketToSendForPTO ELSE 0]]

\* closeImpl: the first close decides the error the connection closes with
CloseImpl(c, error) ==
    IF c.closed THEN c
    ELSE [c EXCEPT !.closed = TRUE, !.localConnectionError = error,
                   !.bytesSentAtClose = c.totalBytesSent,
                   !.receivedUdpPacketsAtClose = c.receivedUdpPackets]

\* onReadData that does not fire the PTO alarm for probes the limit stopped
OnReadDataWithoutAlarm(c, n) ==
    LET c1 == OnServerReadData(c, n)
    IN  IF c1.closed THEN c1 ELSE [c1 EXCEPT !.numProbesWritableBytesLimited = 0]

\* QuicServerTransport::onReadData
OnReadData(c, n) ==
    LET prevWritableBytes == IF c.writableBytesLimit # None
                             THEN c.writableBytesLimit ELSE UnlimitedWritableBytes
        c1 == OnServerReadData(c, n)
        curWritableBytes == IF c1.writableBytesLimit # None
                            THEN c1.writableBytesLimit ELSE UnlimitedWritableBytes
    IN  IF c1.closed THEN c1
        ELSE IF /\ c1.enableWritableBytesLimit
                /\ c1.numProbesWritableBytesLimited > 0
                /\ prevWritableBytes < curWritableBytes
        THEN [OnPTOAlarm(c1) EXCEPT !.numProbesWritableBytesLimited = 0]
        ELSE c1

SrvReadData(n) ==
    /\ ~Faulted(conn)
    /\ conn.totalBytesRecvd + n <= MaxBytesReceived
    /\ conn' = OnReadData(StartWrite(conn), n)
    /\ hist' = SrvHist("read", hist.cause)
    /\ UNCHANGED <<lossBuf, lossBufMetas>>

\* the handshake layer derives the next write cipher
SrvInstallCipher ==
    /\ Running(conn)
    /\ conn.receivedUdpPackets > 0
    /\ ~conn.oneRttWriteCipher
    /\ conn' = IF conn.handshakeWriteCipher
               THEN [StartWrite(conn) EXCEPT !.oneRttWriteCipher = TRUE]
               ELSE [StartWrite(conn) EXCEPT !.handshakeWriteCipher = TRUE]
    /\ hist' = SrvHist("cipher", hist.cause)
    /\ UNCHANGED <<lossBuf, lossBufMetas>>

\* the handshake layer has one more packet of crypto data for a space
SrvCryptoData(sp) ==
    /\ Running(conn)
    /\ conn.receivedUdpPackets > 0
    /\ SpaceHasCipher(conn, sp)
    /\ conn.cryptoStreams[sp].pendingWrites = 0
    /\ LET pendingIn(space) == conn.cryptoStreams[space].pendingWrites
       IN  conn.totalPacketsSent + pendingIn("Initial") + pendingIn("Handshake")
             + pendingIn(AppData) < MaxSrvPackets
    /\ conn' = [StartWrite(conn) EXCEPT !.cryptoStreams[sp].pendingWrites = 1]
    /\ hist' = SrvHist("data", hist.cause)
    /\ UNCHANGED <<lossBuf, lossBufMetas>>

\* QuicServerTransport::verifiedClientAddress
VerifiedClientAddress(c) == [c EXCEPT !.writableBytesLimit = None]

SrvVerifiedClientAddress ==
    /\ Running(conn)
    /\ conn.handshakeWriteCipher
    /\ conn.writableBytesLimit # None
    /\ conn' = VerifiedClientAddress(StartWrite(conn))
    /\ hist' = SrvHist("verified", hist.cause)
    /\ UNCHANGED <<lossBuf, lossBufMetas>>

\* the write looper runs writeData
SrvWriteData ==
    /\ ~Faulted(conn)
    /\ conn.receivedUdpPackets > 0
    /\ conn' = WriteData(StartWrite(conn))
    /\ hist' = SrvHist(IF conn.closed THEN "writeClosed" ELSE "writeOpen",
                       hist.cause)
    /\ UNCHANGED <<lossBuf, lossBufMetas>>

\* the loss timer fires as a PTO: probe credit, then a write
SrvPTO ==
    /\ Running(conn)
    /\ conn.outstandings # <<>>
    /\ conn.totalPacketsSent < MaxSrvPackets
    /\ conn.numProbesWritableBytesLimited < MaxProbesLimited
    /\ conn' = WriteData(OnPTOAlarm(StartWrite(conn)))
    /\ hist' = SrvHist("writeOpen", hist.cause)
    /\ UNCHANGED <<lossBuf, lossBufMetas>>

\* the errors a close is requested with: none, an application error code, or
\* a LocalErrorCode (the destructor closes with SHUTTING_DOWN)
CloseRequests ==
    {NoCloseDetails, QuicError("ApplicationErrorCode", "7"),
     QuicError("LocalErrorCode", "SHUTTING_DOWN"),
     QuicError("LocalErrorCode", "IDLE_TIMEOUT")}

SrvClose(error) ==
    /\ Running(conn)
    /\ conn.receivedUdpPackets > 0
    /\ conn' = CloseImpl(StartWrite(conn), error)
    /\ hist' = SrvHist("close", error.type)
    /\ UNCHANGED <<lossBuf, lossBufMetas>>

\* what processing a crypto event ends with: nothing thrown, or an exception
\* of one of the three kinds onCryptoEventAvailable catches
CryptoEventOutcomes ==
    {[thrown |-> "nothing", errorCode |-> NoCloseDetails],
     [thrown |-> "QuicTransportException",
      errorCode |-> QuicError("TransportErrorCode", "CRYPTO_ERROR")],
     [thrown |-> "QuicInternalException",
      errorCode |-> QuicError("LocalErrorCode", "CODEC_ERROR")],
     [thrown |-> "std::exception", errorCode |-> NoCloseDetails]}

\* QuicServerTransport::onCryptoEventAvailable
OnCryptoEventAvailable(c, outcome) ==
    IF c.closed THEN c
    ELSE CASE outcome.thrown = "nothing" -> WriteData(c)
           [] outcome.thrown \in {"QuicTransportException", "QuicInternalException"} ->
                CloseImpl(c, outcome.errorCode)
           [] outcome.thrown = "std::exception" ->
                CloseImpl(c, QuicError("TransportErrorCode", "INTERNAL_ERROR"))

SrvCryptoEvent(outcome) ==
    /\ ~Faulted(conn)
    /\ conn.receivedUdpPackets > 0
    /\ outcome.thrown = "nothing" => SchedulerHasData(conn, "crypto", "Initial")
    /\ conn' = OnCryptoEventAvailable(StartWrite(conn), outcome)
    /\ hist' = IF conn.closed THEN SrvHist("event", hist.cause)
               ELSE IF outcome.thrown = "nothing" THEN SrvHist("writeOpen", hist.cause)
               ELSE SrvHist("close", outcome.thrown)
    /\ UNCHANGED <<lossBuf, lossBufMetas>>

\* a packet of n bytes carrying the peer's CONNECTION_CLOSE: the read path
\* records the peer's error and closes the connection
SrvPeerClose(n) ==
    /\ Running(conn)
    /\ conn.totalBytesRecvd + n <= MaxBytesReceived
    /\ conn' = CloseImpl([OnServerReadData(StartWrite(conn), n)
                             EXCEPT !.peerConnectionError = TRUE],
                         QuicError("TransportErrorCode", "NO_ERROR"))
    /\ hist' = SrvHist("peerClose", "peer")
    /\ UNCHANGED <<lossBuf, lossBufMetas>>

NextSrv ==
    \/ \E n \in 1..MaxBytesReceived : SrvReadData(n)
    \/ SrvInstallCipher
    \/ \E sp \in Spaces : SrvCryptoData(sp)
    \/ SrvVerifiedClientAddress
    \/ SrvWriteData
    \/ SrvPTO
    \/ \E error \in CloseRequests : SrvClose(error)
    \/ \E outcome \in CryptoEventOutcomes : SrvCryptoEvent(outcome)
    \/ \E n \in 1..MaxBytesReceived : SrvPeerClose(n)

SpecSrv == InitSrv /\ [][NextSrv]_vars

\* C15: while the client's address is not validated (writableBytesLimit is
\* set), the bytes the server has sent, in data packets, probes and close
\* packets, never exceed the writable-bytes limit.
C15_BytesSentWithinLimit ==
    conn.writableBytesLimit # None =>
        conn.totalBytesSent <= conn.writableBytesLimit

\* the place of a packet-number space in the order writeData serves them
SpaceOrder(sp) ==
    CASE sp = "Initial" -> 0 [] sp = "Handshake" -> 1 [] sp = AppData -> 2

SpacesOnWire(c) == {c.wire[i].space : i \in 1..Len(c.wire)}

\* C16: the packets one writeData call writes on an open connection come in
\* the order Initial, Handshake, AppData: no Initial packet follows a
\* Handshake or 1-RTT packet of the call and no Handshake packet follows a
\* 1-RTT packet.
C16_SpacesServedInOrder ==
    hist.op = "writeOpen" =>
        \A i, j \in 1..Len(conn.wire) :
            i < j => SpaceOrder(conn.wire[i].space) <= SpaceOrder(conn.wire[j].space)

\* one call has written packets of all three spaces
C16_Witness ==
    /\ hist.op = "writeOpen"
    /\ SpacesOnWire(conn) = Spaces

\* a packet that carries nothing but a CONNECTION_CLOSE frame
IsClosePacket(w) ==
    Len(w.frames) = 1 /\ w.frames[1].type = "connection_close"

\* a writeData call on a connection the peer has closed
DrainingWriteStep ==
    /\ conn.closed /\ conn.peerConnectionError
    /\ hist'.op = "writeClosed"

\* C17 as stated: once the connection is closed because the peer sent
\* CONNECTION_CLOSE, no writeData call sends any packet.
C17_NoPacketAfterPeerClose ==
    [][DrainingWriteStep => conn'.wire = <<>>]_vars

\* C17: on a connection the peer has closed, writeData writes only close
\* packets, one for each write cipher held, and only as long as no close
\* packet has been sent; once one has been sent, no writeData call sends any
\* packet, whatever arrives.
C17_OneCloseAfterPeerClose ==
    [][DrainingWriteStep =>
          IF HasReceivedUdpPacketsAtLastCloseSent(conn)
          THEN conn'.wire = <<>>
          ELSE /\ \A i \in 1..Len(conn'.wire) : IsClosePacket(conn'.wire[i])
               /\ \A sp \in Spaces :
                     Cardinality({i \in 1..Len(conn'.wire) :
                                     conn'.wire[i].space = sp})
                       = (IF SpaceHasCipher(conn, sp) THEN 1 ELSE 0)
               /\ HasReceivedUdpPacketsAtLastCloseSent(conn')]_vars

\* the peer has closed, a close packet has gone out, another packet has
\* arrived since, and writeData has run without writing
C17_Witness ==
    /\ conn.closed /\ conn.peerConnectionError
    /\ hist.op = "writeClosed"
    /\ HasReceivedUdpPacketsAtLastCloseSent(conn)
    /\ ~HasNotReceivedNewPacketsSinceLastCloseSent(conn)
    /\ conn.wire = <<>>

\* the connection was closed by a local failure: a close requested with a
\* LocalErrorCode, an exception carrying one, or an unexpected std::exception
LocalFailure ==
    hist.cause \in {"LocalErrorCode", "QuicInternalException", "std::exception"}

\* C18: after a local failure, whatever its cause, the connection is closed
\* and every CONNECTION_CLOSE frame it writes is a transport close with
\* error code INTERNAL_ERROR.
C18_LocalFailureClosesWithInternalError ==
    LocalFailure =>
        /\ conn.closed
        /\ \A i \in 1..Len(conn.wire) :
              IsClosePacket(conn.wire[i]) =>
                  conn.wire[i].frames[1] =
                      ConnectionCloseFrame("INTERNAL_ERROR", "CONNECTION_CLOSE")

\* a connection closed with a LocalErrorCode has written its close packets
C18_Witness ==
    /\ hist.cause = "LocalErrorCode"
    /\ hist.op = "writeClosed"
    /\ conn.localConnectionError.code = "SHUTTING_DOWN"
    /\ \E i \in 1..Len(conn.wire) : IsClosePacket(conn.wire[i])

-----------------------------------------------------------------------------
(* The connection ID model: the server issues connection IDs after packets *)
(* and crypto events, and the peer retires them.                           *)

\* kMaxActiveConnectionIdLimit
kMaxActiveConnectionIdLimit == 3

\* maximumConnectionIdsToIssue
MaximumConnectionIdsToIssue(c) ==
    Min(c.peerActiveConnectionIdLimit, kMaxActiveConnectionIdLimit)

\* createAndAddNewSelfConnId, when a connection ID could be encoded: the ID
\* of the next sequence number, with the stateless-reset token generated for
\* it from statelessResetTokenSecret
CreateAndAddNewSelfConnId(c) ==
    LET connId == 100 + c.nextSelfConnectionIdSequence
        newConnIdData == [connId |-> connId,
                          sequenceNumber |-> c.nextSelfConnectionIdSequence,
                          token |-> 1000 + connId]
    IN  [conn |-> [c EXCEPT !.nextSelfConnectionIdSequence = @ + 1,
                            !.selfConnectionIds = Append(@, newConnIdData)],
         newConnIdData |-> newConnIdData]

NewConnectionIdFrame(sequenceNumber, retirePriorTo, connId, token) ==
    [type |-> "new_connection_id", sequenceNumber |-> sequenceNumber,
     retirePriorTo |-> retirePriorTo, connectionId |-> connId, token |-> token]

\* sendSimpleFrame
SendSimpleFrame(c, frame) == [c EXCEPT !.pendingFrames = Append(@, frame)]

\* maybeIssueConnectionIds; createAndAddNewSelfConnId yields a connection ID
\* `available` times and then has none to give
RECURSIVE IssueConnectionIds(_, _, _)
IssueConnectionIds(c, i, available) ==
    IF i >= MaximumConnectionIdsToIssue(c) \/ available = 0 THEN c
    ELSE LET created == CreateAndAddNewSelfConnId(c)
             d == created.newConnIdData
             frame == NewConnectionIdFrame(d.sequenceNumber, 0, d.connId, d.token)
         IN  IssueConnectionIds(SendSimpleFrame(created.conn, frame), i + 1,
                                available)

MaybeIssueConnectionIdsCountsFromZero(c, available) ==
    IF ~c.disableMigration /\ c.handshakeDone
    THEN IssueConnectionIds(c, 0, available)
    ELSE c

MaybeIssueConnectionIds(c, available) ==
    IF /\ ~c.disableMigration
       /\ Len(c.selfConnectionIds) < MaximumConnectionIdsToIssue(c)
       /\ c.handshakeDone
    THEN IssueConnectionIds(c, Len(c.selfConnectionIds), available)
    ELSE c

InitCid ==
    /\ \E limit \in 2..MaxPeerActiveConnectionIdLimit, disabled \in BOOLEAN :
          conn = [CreateAndAddNewSelfConnId(NewConn(FALSE, 0, 0)).conn
                    EXCEPT !.peerActiveConnectionIdLimit = limit,
                           !.disableMigration = disabled]
    /\ hist = SrvHist("init", "open")
    /\ lossBuf = <<>>
    /\ lossBufMetas = <<>>

\* the handshake layer reports the handshake done
CidHandshakeDone ==
    /\ ~conn.handshakeDone
    /\ conn' = [conn EXCEPT !.handshakeDone = TRUE]
    /\ hist' = SrvHist("handshakeDone", "open")
    /\ UNCHANGED <<lossBuf, lossBufMetas>>

\* onReadData of a packet without RETIRE_CONNECTION_ID
CidReadData(available) ==
    /\ conn' = MaybeIssueConnectionIds(conn, available)
    /\ hist' = SrvHist("read", "open")
    /\ UNCHANGED <<lossBuf, lossBufMetas>>

\* onReadData of a packet with RETIRE_CONNECTION_ID for the i-th self
\* connection ID: the read path drops the ID, then IDs are issued
CidRetire(i, available) ==
    /\ Len(conn.selfConnectionIds) > 1
    /\ conn' = MaybeIssueConnectionIds(
                   [conn EXCEPT !.selfConnectionIds = RemoveAt(@, i)], available)
    /\ hist' = SrvHist("retire", "open")
    /\ UNCHANGED <<lossBuf, lossBufMetas>>

\* onCryptoEventAvailable
CidCryptoEvent(available) ==
    /\ conn' = MaybeIssueConnectionIds(conn, available)
    /\ hist' = SrvHist("event", "open")
    /\ UNCHANGED <<lossBuf, lossBufMetas>>

\* the queued simple frames are written
CidWriteFrames ==
    /\ conn.pendingFrames # <<>>
    /\ conn' = [conn EXCEPT !.pendingFrames = <<>>]
    /\ hist' = SrvHist("write", "open")
    /\ UNCHANGED <<lossBuf, lossBufMetas>>

NextCid ==
    LET availableConnIds ==
            0..(MaxConnIdSequence + 1 - conn.nextSelfConnectionIdSequence)
    IN  \/ CidHandshakeDone
        \/ \E available \in availableConnIds : CidReadData(available)
        \/ \E i \in 1..Len(conn.selfConnectionIds),
              available \in availableConnIds : CidRetire(i, available)
        \/ \E available \in availableConnIds : CidCryptoEvent(available)
        \/ CidWriteFrames

SpecCid == InitCid /\ [][NextCid]_vars

\* the self connection IDs a step has added, and the frames it has queued
IssuedIds == {conn'.selfConnectionIds[i] : i \in 1..Len(conn'.selfConnectionIds)}
                \ {conn.selfConnectionIds[i] : i \in 1..Len(conn.selfConnectionIds)}

QueuedFrames ==
    {conn'.pendingFrames[i] : i \in (Len(conn.pendingFrames) + 1)..Len(conn'.pendingFrames)}

ConnIdsAnnouncedStep ==
    /\ \A d \in IssuedIds :
          NewConnectionIdFrame(d.sequenceNumber, 0, d.connId, 1000 + d.connId)
              \in QueuedFrames
    /\ Cardinality(QueuedFrames) = Cardinality(IssuedIds)

\* C19: the server never holds more self connection IDs than
\* maximumConnectionIdsToIssue, and every connection ID a received packet or
\* a crypto event adds is queued for the peer in a NEW_CONNECTION_ID frame
\* with the ID's sequence number and its stateless-reset token.
C19_ConnectionIdsWithinLimitAndAnnounced ==
    /\ [](Len(conn.selfConnectionIds) <= MaximumConnectionIdsToIssue(conn))
    /\ [][hist'.op \in {"read", "retire", "event"} => ConnIdsAnnouncedStep]_vars

\* the peer has retired an ID, the server has issued up to the limit again
\* and the frames of the new IDs are queued
C19_Witness ==
    /\ hist.op = "retire"
    /\ Len(conn.selfConnectionIds) = MaximumConnectionIdsToIssue(conn)
    /\ conn.selfConnectionIds[1].sequenceNumber > 0
    /\ conn.pendingFrames # <<>>

-----------------------------------------------------------------------------
(* Bbr2CongestionController: the state machine and its gains.  Gains are   *)
(* in hundredths; the measurements that decide a transition are inputs.    *)

kStartupPacingGain == 289
kDrainPacingGain == 50
kProbeBwDownPacingGain == 90
kProbeBwCruiseRefillPacingGain == 100
kProbeBwUpPacingGain == 125
kProbeRttPacingGain == 100
kStartupCwndGain == 289
kProbeBwCruiseRefillCwndGain == 200
kProbeBwDownCwndGain == 200
kProbeBwUpCwndGain == 225
kProbeRttCwndGain == 50

\* updatePacingAndCwndGain
UpdatePacingAndCwndGainDrainAsProbeBw(b) ==
    CASE b.state_ = "Startup" ->
            [b EXCEPT !.pacingGain_ = IF b.overrideStartupPacingGain > 0
                                      THEN b.overrideStartupPacingGain
                                      ELSE kStartupPacingGain,
                      !.cwndGain_ = kStartupCwndGain]
      [] b.state_ = "Drain" ->
            [b EXCEPT !.pacingGain_ = kDrainPacingGain,
                      !.cwndGain_ = kProbeBwDownCwndGain]
      [] b.state_ = "ProbeBw_Up" ->
            [b EXCEPT !.pacingGain_ = kProbeBwUpPacingGain,
                      !.cwndGain_ = kProbeBwUpCwndGain]
      [] b.state_ = "ProbeBw_Down" ->
            [b EXCEPT !.pacingGain_ = kProbeBwDownPacingGain,
                      !.cwndGain_ = kProbeBwDownCwndGain]
      [] b.state_ \in {"ProbeBw_Cruise", "ProbeBw_Refill"} ->
            [b EXCEPT !.pacingGain_ = IF b.overrideCruisePacingGain > 0
                                      THEN b.overrideCruisePacingGain
                                      ELSE kProbeBwCruiseRefillPacingGain,
                      !.cwndGain_ = IF b.overrideCruiseCwndGain > 0
                                    THEN b.overrideCruiseCwndGain
                                    ELSE kProbeBwCruiseRefillCwndGain]
      [] b.state_ = "ProbeRTT" ->
            [b EXCEPT !.pacingGain_ = kProbeRttPacingGain,
                      !.cwndGain_ = kProbeRttCwndGain]

UpdatePacingAndCwndGain(b) ==
    CASE b.state_ = "Startup" ->
            [b EXCEPT !.pacingGain_ = IF b.overrideStartupPacingGain > 0
                                      THEN b.overrideStartupPacingGain
                                      ELSE kStartupPacingGain,
                      !.cwndGain_ = kStartupCwndGain]
      [] b.state_ = "Drain" ->
            [b EXCEPT !.pacingGain_ = kDrainPacingGain,
                      !.cwndGain_ = kStartupCwndGain]
      [] b.state_ = "ProbeBw_Up" ->
            [b EXCEPT !.pacingGain_ = kProbeBwUpPacingGain,
                      !.cwndGain_ = kProbeBwUpCwndGain]
      [] b.state_ = "ProbeBw_Down" ->
            [b EXCEPT !.pacingGain_ = kProbeBwDownPacingGain,
                      !.cwndGain_ = kProbeBwDownCwndGain]
      [] b.state_ \in {"ProbeBw_Cruise", "ProbeBw_Refill"} ->
            [b EXCEPT !.pacingGain_ = IF b.overrideCruisePacingGain > 0
                                      THEN b.overrideCruisePacingGain
                                      ELSE kProbeBwCruiseRefillPacingGain,
                      !.cwndGain_ = IF b.overrideCruiseCwndGain > 0
                                    THEN b.overrideCruiseCwndGain
                                    ELSE kProbeBwCruiseRefillCwndGain]
      [] b.state_ = "ProbeRTT" ->
            [b EXCEPT !.pacingGain_ = kProbeRttPacingGain,
                      !.cwndGain_ = kProbeRttCwndGain]

\* enterStartup, enterDrain, startProbeBwDown, startProbeBwCruise,
\* startProbeBwRefill, startProbeBwUp, enterProbeRtt: each sets state_ and
\* calls updatePacingAndCwndGain.  transitions counts the states entered,
\* path lists the states the running handler went through, reachedProbeBw
\* records that a ProbeBW state has been entered.
EnterState(b, state) ==
    UpdatePacingAndCwndGain(
        [b EXCEPT !.state_ = state,
                  !.transitions = @ + 1,
                  !.path = Append(@, state),
                  !.reachedProbeBw =
                      @ \/ state \in {"ProbeBw_Down", "ProbeBw_Cruise",
                                      "ProbeBw_Refill", "ProbeBw_Up"}])

\* checkProbeRttDone, with exitProbeRtt
CheckProbeRttDoneToStartup(b, ev) ==
    IF (b.probeRttDoneTimestamp_ /\ ev.probeRttTimeUp) \/ ev.inflightZero
    THEN EnterState(b, "Startup")
    ELSE b

CheckProbeRttDone(b, ev) ==
    IF (b.probeRttDoneTimestamp_ /\ ev.probeRttTimeUp) \/ ev.inflightZero
    THEN IF b.fullBwReached_
         THEN EnterState(EnterState(b, "ProbeBw_Down"), "ProbeBw_Cruise")
         ELSE EnterState(b, "Startup")
    ELSE b

\* updateProbeBwCyclePhase, with adaptUpperBounds and handleInFlightTooHigh
UpdateProbeBwCyclePhase(b, ev) ==
    LET b1 == IF ev.inflightTooHigh /\ b.state_ = "ProbeBw_Up"
              THEN EnterState(b, "ProbeBw_Down") ELSE b
    IN  IF ~b.fullBwReached_ THEN b
        ELSE CASE b1.state_ = "ProbeBw_Down" ->
                    IF ev.timeToProbeBW THEN EnterState(b1, "ProbeBw_Refill")
                    ELSE IF ev.timeToCruise THEN EnterState(b1, "ProbeBw_Cruise")
                    ELSE b1
               [] b1.state_ = "ProbeBw_Cruise" ->
                    IF ev.timeToProbeBW THEN EnterState(b1, "ProbeBw_Refill")
                    ELSE b1
               [] b1.state_ = "ProbeBw_Refill" ->
                    IF b1.roundStart_ THEN EnterState(b1, "ProbeBw_Up") ELSE b1
               [] b1.state_ = "ProbeBw_Up" ->
                    IF ev.timeToGoDown THEN EnterState(b1, "ProbeBw_Down") ELSE b1
               [] OTHER -> b1

\* checkProbeRtt, with handleProbeRtt
CheckProbeRtt(b, ev) ==
    LET b1 == IF b.state_ # "ProbeRTT" /\ ev.probeRttExpired /\ ~b.idleRestart_
              THEN [EnterState(b, "ProbeRTT") EXCEPT !.probeRttDoneTimestamp_ = FALSE]
              ELSE b
        b2 == IF b1.state_ # "ProbeRTT" THEN b1
              ELSE IF ~b1.probeRttDoneTimestamp_ /\ ev.inflightLow
              THEN [b1 EXCEPT !.probeRttDoneTimestamp_ = TRUE]
              ELSE IF b1.probeRttDoneTimestamp_ /\ b1.roundStart_
              THEN CheckProbeRttDone(b1, ev)
              ELSE b1
    IN  IF ev.acked THEN [b2 EXCEPT !.idleRestart_ = FALSE] ELSE b2

\* onPacketAckOrLoss with an ack event that is not implicit
OnPacketAckOrLoss(b, ev) ==
    LET b1 == [b EXCEPT !.roundStart_ = ev.roundStart,
                        !.fullBwReached_ = @ \/ ev.fullBw]
        \* checkStartupDone
        b2 == IF b1.state_ = "Startup" /\ b1.fullBwReached_
              THEN EnterState(b1, "Drain") ELSE b1
        \* checkDrain
        b3 == IF b2.state_ = "Drain" /\ ev.drained
              THEN EnterState(b2, "ProbeBw_Down") ELSE b2
    IN  CheckProbeRtt(UpdateProbeBwCyclePhase(b3, ev), ev)

\* onPacketSent
OnPacketSent(b, ev) ==
    IF ev.inflightZero /\ ev.appLimited
    THEN LET b1 == [b EXCEPT !.idleRestart_ = TRUE]
         IN  IF b1.state_ = "ProbeRTT" THEN CheckProbeRttDone(b1, ev) ELSE b1
    ELSE b

\* Bytes are counted in packets of udpSendPacketLen and times in units of
\* 200 ms.  Every time point the controller keeps is held as its distance
\* from Clock::now().
kProbeRTTInterval == 25
kProbeRttDuration == 1
kBeta == 70
kLossThreshold == 2
kMinCwndInMssForBbr == 4
initCwndInMss == 4

\* Bbr2CongestionController::Bbr2CongestionController, which ends with
\* enterStartup, for the gain overrides and conservativeRecovery of ccaConfig
NewBbr2(startupPacing, cruisePacing, cruiseCwnd, conservativeRecovery) ==
    EnterState(
        [state_ |-> "Startup", pacingGain_ |-> 100, cwndGain_ |-> 100,
         fullBwReached_ |-> FALSE, roundStart_ |-> FALSE,
         idleRestart_ |-> FALSE, probeRttDoneTimestamp_ |-> FALSE,
         transitions |-> 0, path |-> <<>>, reachedProbeBw |-> FALSE,
         overrideStartupPacingGain |-> startupPacing,
         overrideCruisePacingGain |-> cruisePacing,
         overrideCruiseCwndGain |-> cruiseCwnd,
         conservativeRecovery |-> conservativeRecovery,
         inflightBytes |-> 0, cwndBytes_ |-> initCwndInMss,
         previousCwndBytes_ |-> 0, sendQuantum_ |-> 2,
         bandwidth_ |-> 0, maxBw |-> 0, minRttKnown |-> FALSE,
         bandwidthLatest_ |-> 0, inflightLatest_ |-> 0,
         bandwidthLo_ |-> None, inflightLo_ |-> None,
         lossBytesInRound_ |-> 0, lossEventsInRound_ |-> 0,
         lossBytesInLastRound |-> 0, bytesSentInLastRound |-> 1,
         lossEventsInLastRound_ |-> 0, lossRoundStart_ |-> FALSE,
         fullBw_ |-> 0, fullBwNow_ |-> FALSE, fullBwCount_ |-> 0,
         appLimited_ |-> FALSE, inRecovery_ |-> FALSE,
         probeRttMinAge |-> 0, probeRttDoneIn |-> 0],
        "Startup")

\* a controller under each setting of the three gain overrides
InitBbr ==
    /\ \E startupPacing \in {0, 200}, cruisePacing \in {0, 110},
          cruiseCwnd \in {0, 150} :
          conn = NewBbr2(startupPacing, cruisePacing, cruiseCwnd, FALSE)
    /\ hist = SrvHist("init", "open")
    /\ lossBuf = <<>>
    /\ lossBufMetas = <<>>

BbrPacketAckOrLoss(ev) ==
    /\ conn.transitions < MaxBbrTransitions
    /\ conn' = OnPacketAckOrLoss([conn EXCEPT !.path = <<conn.state_>>], ev)
    /\ hist' = SrvHist("ack", "open")
    /\ UNCHANGED <<lossBuf, lossBufMetas>>

BbrPacketSent(ev) ==
    /\ conn.transitions < MaxBbrTransitions
    /\ conn' = OnPacketSent([conn EXCEPT !.path = <<conn.state_>>], ev)
    /\ hist' = SrvHist("sent", "open")
    /\ UNCHANGED <<lossBuf, lossBufMetas>>

NextBbr ==
    \/ \E ev \in [roundStart : BOOLEAN, fullBw : BOOLEAN, drained : BOOLEAN,
                  inflightTooHigh : BOOLEAN, timeToProbeBW : BOOLEAN,
                  timeToCruise : BOOLEAN, timeToGoDown : BOOLEAN,
                  probeRttExpired : BOOLEAN, inflightLow : BOOLEAN,
                  probeRttTimeUp : BOOLEAN, inflightZero : BOOLEAN,
                  acked : BOOLEAN] : BbrPacketAckOrLoss(ev)
    \/ \E ev \in [inflightZero : BOOLEAN, appLimited : BOOLEAN,
                  probeRttTimeUp : BOOLEAN] : BbrPacketSent(ev)

SpecBbr == InitBbr /\ [][NextBbr]_vars

\* the gains tabulated for a state, in hundredths: <<pacing, cwnd>>
TabulatedGains(state) ==
    CASE state = "Startup" -> <<289, 289>>
      [] state = "Drain" -> <<50, 289>>
      [] state = "ProbeBw_Down" -> <<90, 200>>
      [] state = "ProbeBw_Cruise" -> <<100, 200>>
      [] state = "ProbeBw_Refill" -> <<100, 200>>
      [] state = "ProbeBw_Up" -> <<125, 225>>
      [] state = "ProbeRTT" -> <<100, 50>>

NoGainOverride ==
    /\ conn.overrideStartupPacingGain = 0
    /\ conn.overrideCruisePacingGain = 0
    /\ conn.overrideCruiseCwndGain = 0

\* C20: with no gain override configured, the controller's pacing gain and
\* cwnd gain are, after every state transition, exactly the pair tabulated for
\* the state it is in.
C20_GainsMatchState ==
    NoGainOverride =>
        <<conn.pacingGain_, conn.cwndGain_>> = TabulatedGains(conn.state_)

\* the controller has gone from Startup into Drain
C20_Witness ==
    /\ NoGainOverride
    /\ conn.state_ = "Drain"
    /\ conn.transitions = 2

\* the edges between two states of the controller
ProbeBwStates ==
    {"ProbeBw_Down", "ProbeBw_Cruise", "ProbeBw_Refill", "ProbeBw_Up"}

Bbr2States == {"Startup", "Drain", "ProbeRTT"} \cup ProbeBwStates

ListedEdges ==
    {<<"Startup", "Drain">>, <<"Drain", "ProbeBw_Down">>,
     <<"ProbeBw_Down", "ProbeBw_Cruise">>, <<"ProbeBw_Cruise", "ProbeBw_Refill">>,
     <<"ProbeBw_Refill", "ProbeBw_Up">>, <<"ProbeBw_Up", "ProbeBw_Down">>}
        \cup {<<s, "ProbeRTT">> : s \in Bbr2States \ {"ProbeRTT"}}
        \cup {<<"ProbeRTT", s>> : s \in ProbeBwStates}

\* the edges the running handler went along
PathEdges == {<<conn.path[i], conn.path[i + 1]>> : i \in 1..(Len(conn.path) - 1)}

\* Drain is entered only from Startup, and Startup is not entered once a
\* ProbeBW state has been entered
DrainAndStartupEntries ==
    /\ \A e \in PathEdges : e[2] = "Drain" => e[1] = "Startup"
    /\ \A e \in PathEdges : e[2] = "Startup" => ~conn.reachedProbeBw

\* C21 as stated: the state only changes along Startup -> Drain,
\* Drain -> ProbeBW_Down, Down -> Cruise -> Refill -> Up -> Down, any state
\* -> ProbeRTT and ProbeRTT -> ProbeBW; Drain is entered only from Startup and
\* Startup is never entered again once ProbeBW has been reached.
C21_OnlyListedEdges ==
    PathEdges \subseteq ListedEdges /\ DrainAndStartupEntries

\* C21: the state only changes along the listed edges, along ProbeBW_Down ->
\* ProbeBW_Refill (the wait of the cycle has run out before the controller
\* could cruise) and along ProbeRTT -> Startup (ProbeRTT was entered before
\* the full bandwidth was reached); Drain is entered only from Startup and
\* Startup is never entered again once ProbeBW has been reached.
C21_OnlyCodeEdges ==
    /\ PathEdges \subseteq
           ListedEdges \cup {<<"ProbeBw_Down", "ProbeBw_Refill">>,
                             <<"ProbeRTT", "Startup">>}
    /\ DrainAndStartupEntries

\* one handler has gone from Startup through Drain into the ProbeBW cycle,
\* and an earlier one had left ProbeRTT for Startup
C21_Witness ==
    /\ conn.path = <<"Startup", "Drain", "ProbeBw_Down", "ProbeBw_Refill">>
    /\ conn.transitions = 6

-----------------------------------------------------------------------------
(* The BBRv2 controller with its measurements: what the ACKs, the losses   *)
(* and the clock report decides the transitions of the state machine above *)

\* getBDPWithGain, gain in hundredths; minRtt_ is one round trip and
\* bandwidth_ is counted in packets per round trip
GetBDPWithGain(b, gain) ==
    IF ~b.minRttKnown THEN (gain * initCwndInMss) \div 100
    ELSE (gain * b.bandwidth_) \div 100

\* getTargetInflightWithGain, with addQuantizationBudget
GetTargetInflightWithGainOfBdp(b, gain) == GetBDPWithGain(b, gain)

GetTargetInflightWithGain(b, gain) ==
    Max(Max(GetBDPWithGain(b, gain), 3 * b.sendQuantum_), kMinCwndInMssForBbr)
        + (IF b.state_ = "ProbeBw_Up" THEN 2 ELSE 0)

\* getProbeRTTCwnd
GetProbeRTTCwnd(b) ==
    Max(GetBDPWithGain(b, kProbeRttCwndGain), kMinCwndInMssForBbr)

\* saveCwnd (inLossRecovery_ is never set)
SaveCwnd(b) ==
    [b EXCEPT !.previousCwndBytes_ =
                  IF b.state_ # "ProbeRTT" THEN b.cwndBytes_
                  ELSE Max(b.cwndBytes_, @)]

\* onPacketAckOrLoss up to the implicit ack: the bytes leave the inflight,
\* and a loss starts a conservative recovery
RemoveFromInflight(b, in) ==
    IF in.lostBytes > 0 /\ b.conservativeRecovery
    THEN [SaveCwnd(b) EXCEPT
             !.inflightBytes = @ - in.ackedBytes - in.lostBytes,
             !.inRecovery_ = TRUE,
             !.appLimited_ = TRUE,
             !.cwndBytes_ = b.inflightBytes - in.ackedBytes - in.lostBytes
                                + Max(in.ackedBytes, 1)]
    ELSE [b EXCEPT !.inflightBytes = @ - in.ackedBytes - in.lostBytes]

\* onPacketAckOrLoss: the end of the app-limited period and of the recovery
\* (restoreCwnd), updateLatestDeliverySignals and updateRound
UpdateLatestDeliverySignals(b, in) ==
    [b EXCEPT
       !.appLimited_ = @ /\ ~in.appLimitedOver,
       !.inRecovery_ = @ /\ ~in.recoveryOver,
       !.cwndBytes_ = IF b.inRecovery_ /\ in.recoveryOver
                      THEN Max(@, b.previousCwndBytes_) ELSE @,
       !.lossRoundStart_ = in.lossRoundStart,
       !.bandwidthLatest_ = Max(@, in.bandwidthSample),
       !.inflightLatest_ = Max(@, Max(b.bandwidthLatest_, in.bandwidthSample)),
       !.lossBytesInLastRound = IF in.lossRoundStart THEN b.lossBytesInRound_ ELSE @,
       !.bytesSentInLastRound = IF in.lossRoundStart THEN in.bytesSentInRound ELSE @,
       !.lossEventsInLastRound_ = IF in.lossRoundStart THEN b.lossEventsInRound_ ELSE @,
       !.roundStart_ = in.roundStart]

\* updateCongestionSignals; the bandwidth filter keeps the largest sample
UpdateCongestionSignalsInEveryState(b, in) ==
    Bind([b EXCEPT !.maxBw = Max(@, b.bandwidthLatest_),
                   !.lossBytesInRound_ = @ + in.lostBytes,
                   !.lossEventsInRound_ = @ + (IF in.lostBytes > 0 THEN 1 ELSE 0)],
         LAMBDA b1 :
      IF ~b1.lossRoundStart_ THEN b1
      ELSE IF b1.lossBytesInRound_ = 0 THEN b1
      ELSE [b1 EXCEPT
              !.bandwidthLo_ =
                  Max(b1.bandwidthLatest_,
                      ((IF @ = None THEN b1.maxBw ELSE @) * kBeta) \div 100),
              !.inflightLo_ =
                  Max(b1.inflightLatest_,
                      ((IF @ = None THEN b1.cwndBytes_ ELSE @) * kBeta) \div 100),
              !.lossBytesInRound_ = 0,
              !.lossEventsInRound_ = 0])

UpdateCongestionSignals(b, in) ==
    Bind([b EXCEPT !.maxBw = Max(@, b.bandwidthLatest_),
                   !.lossBytesInRound_ = @ + in.lostBytes,
                   !.lossEventsInRound_ = @ + (IF in.lostBytes > 0 THEN 1 ELSE 0)],
         LAMBDA b1 :
      IF ~b1.lossRoundStart_ THEN b1
      ELSE IF b1.state_ = "ProbeBw_Up" THEN b1
      ELSE IF b1.lossBytesInRound_ = 0 THEN b1
      ELSE [b1 EXCEPT
              !.bandwidthLo_ =
                  Max(b1.bandwidthLatest_,
                      ((IF @ = None THEN b1.maxBw ELSE @) * kBeta) \div 100),
              !.inflightLo_ =
                  Max(b1.inflightLatest_,
                      ((IF @ = None THEN b1.cwndBytes_ ELSE @) * kBeta) \div 100),
              !.lossBytesInRound_ = 0,
              !.lossEventsInRound_ = 0])

\* checkFullBwReached: a round without a growth of 25% is counted
CheckFullBwReachedAfterTwoRounds(b) ==
    IF b.fullBwNow_ \/ b.appLimited_ THEN b
    ELSE IF 4 * b.maxBw >= 5 * b.fullBw_
    THEN [b EXCEPT !.fullBw_ = b.maxBw, !.fullBwNow_ = FALSE, !.fullBwCount_ = 0]
    ELSE IF ~b.roundStart_ THEN b
    ELSE [b EXCEPT !.fullBwCount_ = @ + 1,
                   !.fullBwNow_ = b.fullBwCount_ + 1 >= 2,
                   !.fullBwReached_ = @ \/ b.fullBwCount_ + 1 >= 2]

CheckFullBwReached(b) ==
    IF b.fullBwNow_ \/ b.appLimited_ THEN b
    ELSE IF 4 * b.maxBw >= 5 * b.fullBw_
    THEN [b EXCEPT !.fullBw_ = b.maxBw, !.fullBwNow_ = FALSE, !.fullBwCount_ = 0]
    ELSE IF ~b.roundStart_ THEN b
    ELSE [b EXCEPT !.fullBwCount_ = @ + 1,
                   !.fullBwNow_ = b.fullBwCount_ + 1 >= 3,
                   !.fullBwReached_ = @ \/ b.fullBwCount_ + 1 >= 3]

\* checkStartupHighLoss (ignoreLoss off); lossPctInLastRound_ is the quotient
\* of lossBytesInLastRound and bytesSentInLastRound
CheckStartupHighLoss(b) ==
    IF b.fullBwReached_ \/ ~b.roundStart_ \/ b.appLimited_ THEN b
    ELSE IF /\ 100 * b.lossBytesInLastRound > kLossThreshold * b.bytesSentInLastRound
            /\ b.lossEventsInLastRound_ >= 6
    THEN [b EXCEPT !.fullBwReached_ = TRUE]
    ELSE b

\* updateMinRtt: every ack carries an RTT sample of one round trip, which
\* is taken when the connection restarts from idle, when no sample has been
\* taken yet or when the one held has expired
ProbeRttExpired(b) ==
    ~b.idleRestart_ /\ b.probeRttMinAge > kProbeRTTInterval

UpdateMinRtt(b, in) ==
    [b EXCEPT !.probeRttMinAge =
                  IF b.idleRestart_ \/ ~b.minRttKnown \/ ProbeRttExpired(b)
                  THEN 0 ELSE @,
              !.minRttKnown = TRUE]

\* what the state machine reads in onPacketAckOrLoss: b is the controller
\* when checkStartupDone is called
AckSignals(b, in) ==
    [roundStart |-> b.roundStart_,
     fullBw |-> CheckStartupHighLoss(b).fullBwReached_,
     drained |-> b.inflightBytes <= GetTargetInflightWithGain(b, 100),
     inflightTooHigh |-> in.inflightTooHigh,
     timeToProbeBW |-> in.timeToProbeBW,
     timeToCruise |-> in.timeToCruise,
     timeToGoDown |-> in.timeToGoDown,
     probeRttExpired |-> ProbeRttExpired(b),
     inflightLow |-> b.inflightBytes <= GetProbeRTTCwnd(UpdateMinRtt(b, in)),
     probeRttTimeUp |-> b.probeRttDoneIn < 0,
     inflightZero |-> b.inflightBytes = 0,
     acked |-> in.ackedBytes > 0]

\* what the functions that change state_ do besides: enterProbeRtt is
\* followed by saveCwnd, handleProbeRtt sets the end of ProbeRTT and marks
\* the connection app-limited, checkProbeRttDone restores the cwnd, resets
\* the lower bounds and schedules the next ProbeRTT, startProbeBwDown resets
\* the congestion signals, startProbeBwRefill the lower bounds and
\* startProbeBwUp the full-bandwidth tracking.  before is the controller when
\* the handler started, b the one it left.
TransitionEffects(before, b, handledProbeRtt) ==
    LET entered == {b.path[i] : i \in 2..Len(b.path)}
        exited == before.state_ = "ProbeRTT" /\ b.state_ # "ProbeRTT"
        enteredProbeRtt == before.state_ # "ProbeRTT" /\ b.state_ = "ProbeRTT"
        doneSet == /\ b.probeRttDoneTimestamp_
                   /\ (enteredProbeRtt \/ ~before.probeRttDoneTimestamp_)
    IN  [b EXCEPT
           !.previousCwndBytes_ = IF enteredProbeRtt THEN Max(b.cwndBytes_, @)
                                  ELSE @,
           !.appLimited_ = @ \/ (handledProbeRtt /\ (b.state_ = "ProbeRTT" \/ exited)),
           !.probeRttDoneIn = IF doneSet THEN kProbeRttDuration
                              ELSE IF ~b.probeRttDoneTimestamp_ THEN 0 ELSE @,
           !.probeRttMinAge = IF exited THEN 0 ELSE @,
           !.cwndBytes_ = IF exited THEN Max(@, b.previousCwndBytes_) ELSE @,
           !.bandwidthLo_ = IF exited \/ "ProbeBw_Refill" \in entered
                            THEN None ELSE @,
           !.inflightLo_ = IF exited \/ "ProbeBw_Refill" \in entered
                           THEN None ELSE @,
           !.lossBytesInRound_ = IF "ProbeBw_Down" \in entered THEN 0 ELSE @,
           !.lossEventsInRound_ = IF "ProbeBw_Down" \in entered THEN 0 ELSE @,
           !.bandwidthLatest_ = IF "ProbeBw_Down" \in entered THEN 0 ELSE @,
           !.inflightLatest_ = IF "ProbeBw_Down" \in entered THEN 0 ELSE @,
           !.fullBw_ = IF "ProbeBw_Up" \in entered THEN 0 ELSE @,
           !.fullBwNow_ = IF "ProbeBw_Up" \in entered THEN FALSE ELSE @,
           !.fullBwCount_ = IF "ProbeBw_Up" \in entered THEN 0 ELSE @]

\* setCwnd (ignoreInflightHi on, no ack aggregation)
SetCwndUnboundedInProbeRtt(b, ackedBytes) ==
    LET inflightMax == GetTargetInflightWithGain(b, b.cwndGain_)
        grown == IF b.fullBwReached_ THEN Min(b.cwndBytes_ + ackedBytes, inflightMax)
                 ELSE IF b.cwndBytes_ < inflightMax THEN b.cwndBytes_ + ackedBytes
                 ELSE b.cwndBytes_
        cap == IF b.inflightLo_ = None THEN 2 ^ 30
               ELSE Max(b.inflightLo_, kMinCwndInMssForBbr)
    IN  [b EXCEPT !.cwndBytes_ = Min(Max(grown, kMinCwndInMssForBbr), cap)]

\* setCwnd without the floor of the minimum congestion window
SetCwndWithoutMinimum(b, ackedBytes) ==
    LET inflightMax == GetTargetInflightWithGain(b, b.cwndGain_)
        grown == IF b.fullBwReached_ THEN Min(b.cwndBytes_ + ackedBytes, inflightMax)
                 ELSE IF b.cwndBytes_ < inflightMax THEN b.cwndBytes_ + ackedBytes
                 ELSE b.cwndBytes_
        bounded == IF b.state_ = "ProbeRTT"
                   THEN Min(grown, GetProbeRTTCwnd(b)) ELSE grown
    IN  [b EXCEPT !.cwndBytes_ =
            IF b.inflightLo_ = None THEN bounded ELSE Min(bounded, b.inflightLo_)]

SetCwnd(b, ackedBytes) ==
    LET inflightMax == GetTargetInflightWithGain(b, b.cwndGain_)
        grown == IF b.fullBwReached_ THEN Min(b.cwndBytes_ + ackedBytes, inflightMax)
                 ELSE IF b.cwndBytes_ < inflightMax THEN b.cwndBytes_ + ackedBytes
                 ELSE b.cwndBytes_
        bounded == IF b.state_ = "ProbeRTT"
                   THEN Min(Max(grown, kMinCwndInMssForBbr), GetProbeRTTCwnd(b))
                   ELSE Max(grown, kMinCwndInMssForBbr)
        cap == IF b.inflightLo_ = None THEN 2 ^ 30
               ELSE Max(b.inflightLo_, kMinCwndInMssForBbr)
    IN  [b EXCEPT !.cwndBytes_ = Min(bounded, cap)]

\* onPacketAckOrLoss from advanceLatestDeliverySignals on: boundBwForModel,
\* setSendQuantum (the burst of one pacer tick is below two packets) and
\* setCwnd
UpdateControlParameters(b, in) ==
    SetCwnd(
        [b EXCEPT
           !.bandwidthLatest_ = IF b.lossRoundStart_ THEN in.bandwidthSample ELSE @,
           !.inflightLatest_ = IF b.lossRoundStart_ THEN in.bandwidthSample ELSE @,
           !.bandwidth_ = IF b.state_ # "Startup" /\ b.bandwidthLo_ # None
                          THEN Min(b.maxBw, b.bandwidthLo_) ELSE b.maxBw,
           !.sendQuantum_ = 2],
        in.ackedBytes)

\* onPacketAckOrLoss up to checkStartupDone
Measured(b, in) ==
    CheckFullBwReached(
        UpdateCongestionSignals(
            UpdateLatestDeliverySignals(RemoveFromInflight(b, in), in), in))

\* onPacketAckOrLoss with the measurements of the ack and loss events
Bbr2OnPacketAckOrLoss(b, in) ==
    IF ~in.hasAck THEN RemoveFromInflight(b, in)
    ELSE IF in.implicit THEN SetCwnd(RemoveFromInflight(b, in), in.ackedBytes)
    ELSE Bind(Measured(b, in), LAMBDA b2 :
           UpdateControlParameters(
               TransitionEffects(
                   b2,
                   OnPacketAckOrLoss(UpdateMinRtt(b2, in), AckSignals(b2, in)),
                   TRUE),
               in))

\* onPacketSent
Bbr2OnPacketSent(b, size) ==
    [TransitionEffects(
         b,
         OnPacketSent(b, [inflightZero |-> b.inflightBytes = 0,
                          appLimited |-> b.appLimited_,
                          probeRttTimeUp |-> b.probeRttDoneIn < 0]),
         FALSE)
       EXCEPT !.inflightBytes = @ + size]

\* an event without an ack event, or with an implicit one
NoAckEvent(implicit, ackedBytes, lostBytes) ==
    [hasAck |-> implicit, implicit |-> implicit, ackedBytes |-> ackedBytes,
     lostBytes |-> lostBytes, bandwidthSample |-> 0, roundStart |-> FALSE,
     lossRoundStart |-> FALSE, bytesSentInRound |-> 100,
     appLimitedOver |-> FALSE, recoveryOver |-> FALSE,
     inflightTooHigh |-> FALSE, timeToProbeBW |-> FALSE,
     timeToCruise |-> FALSE, timeToGoDown |-> FALSE]

\* the handler that ran last, the events it was handed and the number of
\* handlers that have run, kept for the properties
Observed(op, in) ==
    [op |-> op, in |-> in, events |-> IF op = "init" THEN 0 ELSE hist.events + 1]

\* A controller that has been running: the first acks of the connection have
\* brought an RTT sample and a bandwidth of four packets per round trip and
\* have opened the congestion window of Startup, inflight bytes are in
\* flight, and the controller has come to state along Startup, Drain,
\* ProbeBw_Down, ProbeBw_Cruise, ProbeBw_Refill, ProbeBw_Up.
RunningBbr2(conservativeRecovery, state, inflight) ==
    LET started == [NewBbr2(0, 0, 0, conservativeRecovery) EXCEPT
                      !.minRttKnown = TRUE, !.maxBw = 4, !.bandwidth_ = 4,
                      !.fullBw_ = 4, !.bandwidthLatest_ = 4,
                      !.inflightLatest_ = 4, !.cwndBytes_ = MaxInflight,
                      !.inflightBytes = inflight]
        full == [started EXCEPT !.fullBwReached_ = TRUE, !.fullBwNow_ = TRUE,
                                !.fullBwCount_ = 3]
        drain == EnterState(full, "Drain")
        down == EnterState(drain, "ProbeBw_Down")
        cruise == EnterState(down, "ProbeBw_Cruise")
        refill == EnterState(cruise, "ProbeBw_Refill")
        up == EnterState(refill, "ProbeBw_Up")
    IN  CASE state = "Startup" -> started
          [] state = "Drain" -> drain
          [] state = "ProbeBw_Down" -> TransitionEffects(started, down, FALSE)
          [] state = "ProbeBw_Cruise" -> TransitionEffects(started, cruise, FALSE)
          [] state = "ProbeBw_Refill" -> TransitionEffects(started, refill, FALSE)
          [] state = "ProbeBw_Up" -> TransitionEffects(started, up, FALSE)

\* the ack events, with or without a loss event: the bytes acked and lost,
\* the bandwidth sample, the rounds that start, the bytes sent in the loss
\* round that ends, and what the ack event ends or shows
AckEvents ==
    [hasAck : {TRUE}, implicit : {FALSE}, ackedBytes : {0, 2},
     lostBytes : {0, 2}, bandwidthSample : {4, 8},
     roundStart : BOOLEAN, lossRoundStart : BOOLEAN,
     bytesSentInRound : {100, 600},
     appLimitedOver : BOOLEAN, recoveryOver : BOOLEAN,
     inflightTooHigh : BOOLEAN, timeToProbeBW : BOOLEAN,
     timeToCruise : BOOLEAN, timeToGoDown : BOOLEAN]

\* the controller in state b can be handed the ack event in: its bytes are
\* in flight, the round has fewer than MaxLossEventsInRound loss events, and
\* the event reports only what the state of the controller looks at
CanBeHanded(b, in) ==
    /\ in.ackedBytes = IF b.inflightBytes >= 2 THEN 2 ELSE 0
    /\ in.ackedBytes + in.lostBytes <= b.inflightBytes
    /\ in.lostBytes > 0 => b.lossEventsInRound_ < MaxLossEventsInRound
    /\ ~in.lossRoundStart => in.bytesSentInRound = 100
    /\ in.appLimitedOver =>
          b.appLimited_ /\ ~(in.lostBytes > 0 /\ b.conservativeRecovery)
    /\ in.recoveryOver =>
          b.inRecovery_ /\ ~(in.lostBytes > 0 /\ b.conservativeRecovery)
    /\ in.timeToProbeBW =>
          b.state_ \in {"Drain", "ProbeBw_Down", "ProbeBw_Cruise"}
    /\ in.timeToCruise => b.state_ \in {"Drain", "ProbeBw_Down"}
    /\ in.timeToGoDown => b.state_ = "ProbeBw_Up"
    /\ in.inflightTooHigh => b.state_ = "ProbeBw_Up"

\* the handler starts: path and transitions are those of this handler
StartHandler(b) == [b EXCEPT !.path = <<b.state_>>, !.transitions = 0]

\* an ack event, with or without a loss event
BbrAck(in) ==
    /\ hist.events < MaxBbrEvents
    /\ CanBeHanded(conn, in)
    /\ conn' = Bbr2OnPacketAckOrLoss(StartHandler(conn), in)
    /\ hist' = Observed("ack", in)
    /\ UNCHANGED <<lossBuf, lossBufMetas>>

\* an implicit ack
BbrImplicitAck ==
    /\ hist.events < MaxBbrEvents
    /\ conn.inflightBytes >= 2
    /\ conn' = Bbr2OnPacketAckOrLoss(StartHandler(conn),
                                     NoAckEvent(TRUE, 2, 0))
    /\ hist' = Observed("implicit", NoAckEvent(TRUE, 2, 0))
    /\ UNCHANGED <<lossBuf, lossBufMetas>>

\* a loss event without an ack event
BbrLoss ==
    /\ hist.events < MaxBbrEvents
    /\ conn.inflightBytes >= 2
    /\ conn' = Bbr2OnPacketAckOrLoss(StartHandler(conn),
                                     NoAckEvent(FALSE, 0, 2))
    /\ hist' = Observed("loss", NoAckEvent(FALSE, 0, 2))
    /\ UNCHANGED <<lossBuf, lossBufMetas>>

\* a packet is sent while the congestion window has room
BbrSent ==
    /\ hist.events < MaxBbrEvents
    /\ conn.inflightBytes < conn.cwndBytes_
    /\ conn.inflightBytes + 2 <= MaxInflight
    /\ conn' = Bbr2OnPacketSent(StartHandler(conn), 2)
    /\ hist' = Observed("sent", NoAckEvent(FALSE, 0, 0))
    /\ UNCHANGED <<lossBuf, lossBufMetas>>

\* setAppLimited
BbrSetAppLimited ==
    /\ hist.events < MaxBbrEvents
    /\ ~conn.appLimited_
    /\ conn' = [StartHandler(conn) EXCEPT !.appLimited_ = TRUE]
    /\ hist' = Observed("appLimited", NoAckEvent(FALSE, 0, 0))
    /\ UNCHANGED <<lossBuf, lossBufMetas>>

\* Clock::now() advances by dt: by the time ProbeRTT lasts while the end of
\* a ProbeRTT is awaited or the probe sample is about to expire, by the time
\* between two ProbeRTTs otherwise
BbrTick(dt) ==
    /\ hist.events < MaxBbrEvents
    /\ IF dt = kProbeRttDuration
       THEN \/ conn.probeRttDoneTimestamp_ /\ conn.probeRttDoneIn >= 0
            \/ conn.probeRttMinAge = kProbeRTTInterval
       ELSE conn.probeRttMinAge <= kProbeRTTInterval
    /\ conn' = [StartHandler(conn) EXCEPT
                  !.probeRttMinAge = Min(@ + dt, kProbeRTTInterval + 1),
                  !.probeRttDoneIn = IF conn.probeRttDoneTimestamp_
                                     THEN Max(@ - dt, 0 - 1) ELSE @]
    /\ hist' = Observed("tick", NoAckEvent(FALSE, 0, 0))
    /\ UNCHANGED <<lossBuf, lossBufMetas>>

\* the next MaxBbrEvents handlers of a running controller
NextBbrMeasured ==
    \/ \E in \in AckEvents : BbrAck(in)
    \/ BbrImplicitAck
    \/ BbrLoss
    \/ BbrSent
    \/ BbrSetAppLimited
    \/ \E dt \in {kProbeRttDuration, kProbeRTTInterval} : BbrTick(dt)

\* a controller in Startup: up to two rounds have passed without the
\* bandwidth growing, up to six loss events have been counted in the running
\* round, the connection is app-limited or not and the probe sample is fresh,
\* five seconds old or older
InitBbrStartup ==
    /\ \E rounds \in {0, 2}, lossEvents \in {0, 5, 6}, appLimited \in BOOLEAN,
          age \in {0, kProbeRTTInterval, kProbeRTTInterval + 1} :
          conn = [RunningBbr2(FALSE, "Startup", 4) EXCEPT
                    !.fullBwCount_ = rounds,
                    !.lossEventsInRound_ = lossEvents,
                    !.lossBytesInRound_ = 2 * lossEvents,
                    !.appLimited_ = appLimited,
                    !.probeRttMinAge = age]
    /\ hist = Observed("init", NoAckEvent(FALSE, 0, 0))
    /\ lossBuf = <<>>
    /\ lossBufMetas = <<>>

SpecBbrStartup == InitBbrStartup /\ [][NextBbrMeasured]_vars

\* an ack event has just been handled by a controller that was in Startup
StartupAck == conn.state_ = "Startup" /\ hist'.op = "ack"

\* the handler left Startup for Drain
LeftStartupForDrain == Len(conn.path) >= 2 /\ conn.path[2] = "Drain"

\* the connection was app-limited when the ack event was checked
AppLimitedAtCheck == conn.appLimited_ /\ ~hist'.in.appLimitedOver

\* the ack event starts the third round in a row in which the bandwidth
\* filter has not grown by 25%
ThirdRoundWithoutGrowth ==
    /\ conn.fullBwCount_ = 2
    /\ hist'.in.roundStart
    /\ 4 * conn'.maxBw < 5 * conn.fullBw_

InitBbrDrain ==
    /\ \E inflight \in {8, 10, MaxInflight},
          age \in {0, kProbeRTTInterval + 1} :
          conn = [RunningBbr2(FALSE, "Drain", inflight) EXCEPT
                    !.probeRttMinAge = age]
    /\ hist = Observed("init", NoAckEvent(FALSE, 0, 0))
    /\ lossBuf = <<>>
    /\ lossBufMetas = <<>>

SpecBbrDrain == InitBbrDrain /\ [][NextBbrMeasured]_vars

\* an ack event has just been handled by a controller that was in Drain
DrainAck == conn.state_ = "Drain" /\ hist'.op = "ack"

\* the handler left Drain for ProbeBw_Down
LeftDrainForProbeBwDown ==
    Len(conn.path) >= 2 /\ conn.path[2] = "ProbeBw_Down"

\* C23 as stated: in Drain, an ack event takes the controller to
\* ProbeBw_Down exactly when the bytes in flight are at most the estimated
\* BDP
C23_ExitAtBdp ==
    [][DrainAck =>
          (LeftDrainForProbeBwDown'
              <=> conn'.inflightBytes <= GetBDPWithGain(conn, 100))]_vars

\* C23: in Drain, an ack event takes the controller to ProbeBw_Down exactly
\* when the bytes in flight are at most the target inflight, which is the
\* estimated BDP raised to three send quanta and to the minimal congestion
\* window; otherwise the controller stays in Drain, unless the probe sample
\* has expired, which takes it to ProbeRTT
C23_DrainExit ==
    [][DrainAck =>
          IF conn'.inflightBytes
                <= Max(Max(GetBDPWithGain(conn, 100), 3 * conn.sendQuantum_),
                       kMinCwndInMssForBbr)
          THEN LeftDrainForProbeBwDown'
          ELSE conn'.state_ = IF conn.probeRttMinAge > kProbeRTTInterval
                              THEN "ProbeRTT" ELSE "Drain"]_vars

\* Drain has been left for ProbeBw_Down with more bytes in flight than the
\* estimated BDP
C23_Witness ==
    /\ hist.op = "ack"
    /\ conn.path[1] = "Drain"
    /\ LeftDrainForProbeBwDown
    /\ conn.bandwidth_ = 4
    /\ conn.inflightBytes = 6

\* an ack event that brings nothing but two acked packets
PlainAck == [NoAckEvent(TRUE, 2, 0) EXCEPT !.implicit = FALSE,
                                            !.bandwidthSample = 4]

\* a controller in Startup or in ProbeBw_Cruise, idle and app-limited or
\* with packets in flight, whose probe sample is five seconds old or older,
\* and the controller, with or without conservative recovery, that the ack
\* event handled after these five seconds has taken to ProbeRTT
InitBbrProbeRtt ==
    /\ \E conservativeRecovery \in BOOLEAN,
          state \in {"Startup", "ProbeBw_Cruise"}, inflight \in {0, 4, 6, 8},
          age \in {kProbeRTTInterval, kProbeRTTInterval + 1},
          appLimited \in BOOLEAN, entered \in BOOLEAN :
          /\ appLimited <=> inflight = 0
          /\ conservativeRecovery => entered
          /\ entered => age > kProbeRTTInterval /\ inflight > 0
          /\ Bind([RunningBbr2(conservativeRecovery, state, inflight) EXCEPT
                     !.probeRttMinAge = age, !.appLimited_ = appLimited],
                  LAMBDA b :
                     conn = IF entered
                            THEN Bbr2OnPacketAckOrLoss(StartHandler(b), PlainAck)
                            ELSE b)
    /\ hist = Observed("init", NoAckEvent(FALSE, 0, 0))
    /\ lossBuf = <<>>
    /\ lossBufMetas = <<>>

SpecBbrProbeRtt == InitBbrProbeRtt /\ [][NextBbrMeasured]_vars

\* C24 as stated: ProbeRTT is entered when the probe sample is more than
\* 5 s old, in ProbeRTT the congestion window is at most the ProbeRTT cwnd,
\* ProbeRTT is left only when 200 ms have passed since the bytes in flight
\* fell to that cwnd or when nothing is in flight, and an ack event handled
\* after these 200 ms leaves ProbeRTT
C24_CappedAndLeft ==
    [][/\ conn.state_ # "ProbeRTT" /\ hist'.op = "ack"
              /\ conn.probeRttMinAge > kProbeRTTInterval /\ ~conn.idleRestart_
          => conn'.state_ = "ProbeRTT"
       /\ conn'.state_ = "ProbeRTT"
          => conn'.cwndBytes_ <= GetProbeRTTCwnd(conn')
       /\ conn.state_ = "ProbeRTT" /\ conn'.state_ # "ProbeRTT"
          => \/ conn.probeRttDoneTimestamp_ /\ conn.probeRttDoneIn < 0
             \/ conn'.inflightBytes = 0
             \/ conn.inflightBytes = 0
       /\ conn.state_ = "ProbeRTT" /\ hist'.op = "ack"
              /\ conn.probeRttDoneTimestamp_ /\ conn.probeRttDoneIn < 0
          => conn'.state_ # "ProbeRTT"]_vars

\* C24: ProbeRTT is entered exactly by the ack events handled when the probe
\* sample is more than 5 s old and the connection is not restarting from
\* idle; after every ack event handled in ProbeRTT the congestion window is
\* at most the ProbeRTT cwnd; ProbeRTT is left exactly by the ack events
\* that start a round when 200 ms have passed since the bytes in flight were
\* found at or below that cwnd or when nothing is left in flight, and by the
\* first packet sent after an idle period
C24_ProbeRtt ==
    [][/\ conn.state_ # "ProbeRTT"
          => (conn'.state_ = "ProbeRTT"
                 <=> /\ hist'.op = "ack"
                     /\ conn.probeRttMinAge > kProbeRTTInterval
                     /\ ~conn.idleRestart_)
       /\ conn'.state_ = "ProbeRTT" /\ hist'.op \in {"ack", "implicit"}
          => conn'.cwndBytes_ <= GetProbeRTTCwnd(conn')
       /\ conn.state_ = "ProbeRTT"
          => (conn'.state_ # "ProbeRTT"
                 <=> \/ /\ hist'.op = "ack"
                        /\ conn.probeRttDoneTimestamp_
                        /\ hist'.in.roundStart
                        /\ conn.probeRttDoneIn < 0 \/ conn'.inflightBytes = 0
                     \/ /\ hist'.op = "sent"
                        /\ conn.inflightBytes = 0
                        /\ conn.appLimited_)]_vars

\* ProbeRTT has been left by an ack event that started a round more than
\* 200 ms after the bytes in flight had fallen to the ProbeRTT cwnd
C24_Witness ==
    /\ hist.op = "ack"
    /\ hist.in.roundStart
    /\ conn.path = <<"ProbeRTT", "ProbeBw_Down", "ProbeBw_Cruise">>
    /\ conn.inflightBytes > 0

\* a controller in each state but ProbeRTT, with or without a loss event
\* counted in the running round; outside ProbeBw_Refill and ProbeBw_Up an
\* earlier loss round may have set the lower bounds, and the congestion
\* window with them
InitBbrLoss ==
    /\ \E state \in Bbr2States \ {"ProbeRTT"}, lossEvents \in {0, 1},
          bounded \in BOOLEAN :
          /\ bounded => state \notin {"ProbeBw_Refill", "ProbeBw_Up"}
          /\ Bind(RunningBbr2(FALSE, state, 4), LAMBDA b :
               conn = [b EXCEPT
                         !.lossEventsInRound_ = lossEvents,
                         !.lossBytesInRound_ = 2 * lossEvents,
                         !.bandwidthLo_ = IF bounded THEN 4 ELSE @,
                         !.inflightLo_ =
                             IF bounded THEN (kBeta * b.cwndBytes_) \div 100
                             ELSE @,
                         !.cwndBytes_ =
                             IF bounded THEN (kBeta * b.cwndBytes_) \div 100
                             ELSE @])
    /\ hist = Observed("init", NoAckEvent(FALSE, 0, 0))
    /\ lossBuf = <<>>
    /\ lossBufMetas = <<>>

SpecBbrLoss == InitBbrLoss /\ [][NextBbrMeasured]_vars

\* an ack event has just been handled that starts a loss round, and bytes
\* were lost during the round it ends
LossRoundAck ==
    /\ hist'.op = "ack"
    /\ hist'.in.lossRoundStart
    /\ conn.lossBytesInRound_ + hist'.in.lostBytes > 0

\* max(inflightLatest_, kBeta * inflightLo_) when the loss round is handled,
\* an inflightLo_ without a value being the congestion window
LossLowerBound ==
    Max(Max(conn.inflightLatest_,
            Max(conn.bandwidthLatest_, hist'.in.bandwidthSample)),
        (kBeta * (IF conn.inflightLo_ = None THEN conn.cwndBytes_
                  ELSE conn.inflightLo_)) \div 100)

\* the handler reset the lower bounds after the loss round was handled, on
\* entering ProbeBw_Refill or on leaving ProbeRTT
LowerBoundsReset ==
    \/ \E i \in 2..Len(conn.path) : conn.path[i] = "ProbeBw_Refill"
    \/ conn.path[1] = "ProbeRTT" /\ conn.state_ # "ProbeRTT"

\* C25 as stated: every ack event that starts a loss round sets inflightLo_
\* to max(inflightLatest_, kBeta * inflightLo_)
C25_EveryLossRound ==
    [][LossRoundAck /\ ~LowerBoundsReset'
          => conn'.inflightLo_ = LossLowerBound]_vars

\* C25: an ack event that starts a loss round sets inflightLo_ to
\* max(inflightLatest_, kBeta * inflightLo_) in every state but ProbeBw_Up,
\* taking the congestion window for an inflightLo_ without a value; in
\* ProbeBw_Up it leaves inflightLo_ as it is
C25_LossLowerBound ==
    [][LossRoundAck /\ ~LowerBoundsReset'
          => conn'.inflightLo_ = IF conn.state_ = "ProbeBw_Up"
                                 THEN conn.inflightLo_
                                 ELSE LossLowerBound]_vars

\* a loss round has lowered an inflightLo_ that had a value to 0.7 times
\* that value, which is above inflightLatest_
C25_Witness ==
    /\ hist.op = "ack"
    /\ hist.in.lossRoundStart
    /\ hist.in.lostBytes > 0
    /\ conn.inflightLo_ = (kBeta * ((kBeta * MaxInflight) \div 100)) \div 100
    /\ conn.inflightLo_ > conn.inflightLatest_

-----------------------------------------------------------------------------
(* The frame decoder: ACK frames                                           *)

\* a frame the decoder rejects with a QuicTransportException: no frame is
\* returned
NoAckFrame == [error |-> TRUE, largestAcked |-> 0, ackBlocks |-> <<>>]

\* decodeAckFrame, for each of the numAdditionalBlocks blocks announced: the
\* pair (gap, blockLen) is read from the cursor, which throws when the
\* buffer has run out; the block ends at prevStart - gap - 2 and starts
\* blockLen below its end, and an end or a start below zero is an error
RECURSIVE DecodeAdditionalBlocks(_, _, _, _)
DecodeAdditionalBlocks(prevStart, numAdditionalBlocks, pairs, frame) ==
    IF numAdditionalBlocks = 0 THEN frame
    ELSE IF pairs = <<>> THEN NoAckFrame
    ELSE IF prevStart < Head(pairs).gap + 2 THEN NoAckFrame
    ELSE IF prevStart - Head(pairs).gap - 2 < Head(pairs).blockLen THEN NoAckFrame
    ELSE Bind(prevStart - Head(pairs).gap - 2, LAMBDA endPacket :
           DecodeAdditionalBlocks(
               endPacket - Head(pairs).blockLen,
               numAdditionalBlocks - 1,
               Tail(pairs),
               [frame EXCEPT !.ackBlocks =
                   Append(@, [startPacket |-> endPacket - Head(pairs).blockLen,
                              endPacket |-> endPacket])]))

\* the additional blocks without the check of the start of a block
RECURSIVE DecodeAdditionalBlocksUnchecked(_, _, _, _)
DecodeAdditionalBlocksUnchecked(prevStart, numAdditionalBlocks, pairs, frame) ==
    IF numAdditionalBlocks = 0 THEN frame
    ELSE IF pairs = <<>> THEN NoAckFrame
    ELSE IF prevStart < Head(pairs).gap + 2 THEN NoAckFrame
    ELSE Bind(prevStart - Head(pairs).gap - 2, LAMBDA endPacket :
           DecodeAdditionalBlocksUnchecked(
               endPacket - Head(pairs).blockLen,
               numAdditionalBlocks - 1,
               Tail(pairs),
               [frame EXCEPT !.ackBlocks =
                   Append(@, [startPacket |-> endPacket - Head(pairs).blockLen,
                              endPacket |-> endPacket])]))

\* decodeAckFrame without the check of the start of a block
DecodeAckFrameUnchecked(in) ==
    IF in.largestAcked < in.firstAckBlockLength THEN NoAckFrame
    ELSE DecodeAdditionalBlocksUnchecked(
             in.largestAcked - in.firstAckBlockLength,
             in.numAdditionalBlocks,
             in.pairs,
             [error |-> FALSE, largestAcked |-> in.largestAcked,
              ackBlocks |-> <<[startPacket |-> in.largestAcked
                                                 - in.firstAckBlockLength,
                               endPacket |-> in.largestAcked]>>])

\* decodeAckFrame with every block one packet further down
DecodeAckFrameGapPlusThree(in) ==
    IF in.largestAcked < in.firstAckBlockLength THEN NoAckFrame
    ELSE DecodeAdditionalBlocks(
             in.largestAcked - in.firstAckBlockLength - 1,
             in.numAdditionalBlocks,
             in.pairs,
             [error |-> FALSE, largestAcked |-> in.largestAcked,
              ackBlocks |-> <<[startPacket |-> in.largestAcked
                                                 - in.firstAckBlockLength,
                               endPacket |-> in.largestAcked]>>])

\* decodeAckFrame: largestAcked, numAdditionalBlocks and firstAckBlockLength
\* have been read; the first block is
\* [largestAcked - firstAckBlockLength, largestAcked]
DecodeAckFrame(in) ==
    IF in.largestAcked < in.firstAckBlockLength THEN NoAckFrame
    ELSE DecodeAdditionalBlocks(
             in.largestAcked - in.firstAckBlockLength,
             in.numAdditionalBlocks,
             in.pairs,
             [error |-> FALSE, largestAcked |-> in.largestAcked,
              ackBlocks |-> <<[startPacket |-> in.largestAcked
                                                 - in.firstAckBlockLength,
                               endPacket |-> in.largestAcked]>>])

\* the (gap, blockLen) pairs a frame is built from, and the sequences of at
\* most MaxAckBlocks of them
AckBlockPairs == [gap : {0, 10, 1000}, blockLen : {0, 10, 1000}]

AckBlockLists == UNION {[1..n -> AckBlockPairs] : n \in 0..MaxAckBlocks}

\* createAckFrame has written an ACK frame into the buffer
InitAck ==
    /\ conn \in [largestAcked : {11, 12, 1000},
                 firstAckBlockLength : {10, 2000},
                 numAdditionalBlocks : 0..MaxAckBlocks,
                 pairs : AckBlockLists,
                 decoded : {FALSE},
                 frame : {NoAckFrame}]
    /\ hist = <<>>
    /\ lossBuf = <<>>
    /\ lossBufMetas = <<>>

\* the frame in the buffer is decoded
AckDecode ==
    /\ ~conn.decoded
    /\ conn' = [conn EXCEPT !.decoded = TRUE, !.frame = DecodeAckFrame(conn)]
    /\ UNCHANGED <<hist, lossBuf, lossBufMetas>>

NextAck == AckDecode

SpecAck == InitAck /\ [][NextAck]_vars

\* the frame of DecodeTest.AckFrameBlockLengthZero
AckOfThreeRanges ==
    /\ conn.largestAcked = 1000
    /\ conn.firstAckBlockLength = 10
    /\ conn.numAdditionalBlocks = 3
    /\ conn.pairs = <<[gap |-> 10, blockLen |-> 10],
                      [gap |-> 10, blockLen |-> 0],
                      [gap |-> 0, blockLen |-> 10]>>

\* C26: a decoded ACK frame has one range more than numAdditionalBlocks;
\* the first is [largestAcked - firstAckBlockLength, largestAcked], every
\* later one ends at the start of the one before minus gap minus 2 and
\* starts blockLen below its end, so that a blockLen of zero gives a range
\* of one packet; largestAcked 1000, firstAckBlockLength 10 and the pairs
\* (10,10), (10,0), (0,10) give [990,1000], [968,978], [956,956], [944,954]
C26_AckRanges ==
    conn.decoded /\ ~conn.frame.error =>
        LET blocks == conn.frame.ackBlocks
        IN  /\ Len(blocks) = conn.numAdditionalBlocks + 1
            /\ blocks[1] = [startPacket |-> conn.largestAcked
                                               - conn.firstAckBlockLength,
                            endPacket |-> conn.largestAcked]
            /\ \A i \in 1..conn.numAdditionalBlocks :
                  /\ blocks[i + 1].endPacket
                        = blocks[i].startPacket - conn.pairs[i].gap - 2
                  /\ blocks[i + 1].startPacket
                        = blocks[i + 1].endPacket - conn.pairs[i].blockLen
                  /\ conn.pairs[i].blockLen = 0
                        => blocks[i + 1].startPacket = blocks[i + 1].endPacket
            /\ AckOfThreeRanges =>
                  blocks = <<[startPacket |-> 990, endPacket |-> 1000],
                             [startPacket |-> 968, endPacket |-> 978],
                             [startPacket |-> 956, endPacket |-> 956],
                             [startPacket |-> 944, endPacket |-> 954]>>

\* the frame of DecodeTest.AckFrameBlockLengthZero has been decoded into
\* four ranges
C26_Witness ==
    /\ conn.decoded
    /\ AckOfThreeRanges
    /\ ~conn.frame.error
    /\ Len(conn.frame.ackBlocks) = 4

\* the packets the first n pairs take below the first block: each pair takes
\* its gap, the two packets that bound the gap, and its block
RECURSIVE PacketsBelowFirstBlock(_, _)
PacketsBelowFirstBlock(pairs, n) ==
    IF n = 0 THEN 0
    ELSE PacketsBelowFirstBlock(pairs, n - 1)
             + pairs[n].gap + 2 + pairs[n].blockLen

\* the arithmetic of the blocks of the frame in the buffer underflows:
\* firstAckBlockLength is above largestAcked, a gap puts the end of a block
\* below zero, a blockLen is above the end of its block, or fewer pairs are
\* in the buffer than numAdditionalBlocks announces
AckFrameUnderflows ==
    \/ conn.firstAckBlockLength > conn.largestAcked
    \/ conn.numAdditionalBlocks > Len(conn.pairs)
    \/ \E i \in 1..Min(conn.numAdditionalBlocks, Len(conn.pairs)) :
          LET endPacket == conn.largestAcked - conn.firstAckBlockLength
                               - PacketsBelowFirstBlock(conn.pairs, i - 1)
                               - conn.pairs[i].gap - 2
          IN  endPacket < 0 \/ conn.pairs[i].blockLen > endPacket

\* C27: decodeAckFrame rejects exactly the frames whose block arithmetic
\* underflows, and a rejected frame yields no ranges
C27_AckUnderflowRejected ==
    conn.decoded =>
        /\ conn.frame.error <=> AckFrameUnderflows
        /\ conn.frame.error => conn.frame.ackBlocks = <<>>

\* the frame of DecodeTest.AckFrameAdditionalBlocksUnderflow, which
\* announces two additional blocks and holds one pair, has been rejected
C27_Witness ==
    /\ conn.decoded
    /\ conn.largestAcked = 1000
    /\ conn.firstAckBlockLength = 10
    /\ conn.numAdditionalBlocks = 2
    /\ conn.pairs = <<[gap |-> 10, blockLen |-> 10]>>
    /\ conn.frame.error


\* ------------------------------------------------------------------------
\* RESET_STREAM and RESET_STREAM_AT frames: createRstStreamFrame writes the
\* frame into a buffer of bytes, parseFrame reads it back
\* ------------------------------------------------------------------------

\* the number of bytes trimmed from the end of a written frame
MaxTrim == 2

\* QuicInteger::encode: the variable-length integer of 1, 2 or 4 bytes, the
\* two high bits of the first byte giving the length
EncodeQuicInteger(v) ==
    IF v < 64 THEN <<v>>
    ELSE IF v < 16384 THEN <<64 + (v \div 256), v % 256>>
    ELSE <<128 + (v \div 16777216), (v \div 65536) % 256,
           (v \div 256) % 256, v % 256>>

\* the length in bytes a first byte announces
QuicIntegerLength(firstByte) ==
    CASE firstByte \div 64 = 0 -> 1
      [] firstByte \div 64 = 1 -> 2
      [] firstByte \div 64 = 2 -> 4
      [] OTHER -> 8

RECURSIVE BigEndian(_, _)
BigEndian(bytes, acc) ==
    IF bytes = <<>> THEN acc
    ELSE BigEndian(Tail(bytes), acc * 256 + Head(bytes))

\* decodeQuicInteger: the value and the bytes left after it, or ok = FALSE
\* when the buffer ends before the integer does
DecodeQuicInteger(buf) ==
    IF buf = <<>> \/ Len(buf) < QuicIntegerLength(Head(buf))
    THEN [ok |-> FALSE, value |-> 0, rest |-> buf]
    ELSE LET n == QuicIntegerLength(Head(buf))
         IN  [ok |-> TRUE,
              value |-> BigEndian(SubSeq(buf, 2, n), Head(buf) % 64),
              rest |-> SubSeq(buf, n + 1, Len(buf))]

\* createRstStreamFrame: frame type RST_STREAM_AT (0x24) when a reliable size
\* is given, RST_STREAM (0x04) otherwise, then the stream id, the error
\* code, the final size and the optional reliable size
CreateRstStreamFrame(in) ==
    EncodeQuicInteger(IF in.hasReliableSize THEN 36 ELSE 4)
    \o EncodeQuicInteger(in.streamId)
    \o EncodeQuicInteger(in.errorCode)
    \o EncodeQuicInteger(in.finalSize)
    \o (IF in.hasReliableSize THEN EncodeQuicInteger(in.reliableSize)
        ELSE <<>>)

\* the result of a parse that has thrown a QuicTransportException
NoRstStreamFrame ==
    [error |-> TRUE, streamId |-> 0, errorCode |-> 0, finalSize |-> 0,
     hasReliableSize |-> FALSE, reliableSize |-> 0]

\* decodeRstStreamFrame without the comparison of the two sizes
DecodeRstStreamFrameAnySize(buf, reliable) ==
    LET streamId == DecodeQuicInteger(buf)
        errorCode == DecodeQuicInteger(streamId.rest)
        finalSize == DecodeQuicInteger(errorCode.rest)
        reliableSize == DecodeQuicInteger(finalSize.rest)
    IN  IF ~streamId.ok \/ ~errorCode.ok \/ ~finalSize.ok THEN NoRstStreamFrame
        ELSE IF reliable /\ ~reliableSize.ok THEN NoRstStreamFrame
        ELSE [error |-> FALSE, streamId |-> streamId.value,
              errorCode |-> errorCode.value, finalSize |-> finalSize.value,
              hasReliableSize |-> reliable,
              reliableSize |-> IF reliable THEN reliableSize.value ELSE 0]

\* decodeRstStreamFrame: stream id, error code, final size and, in a
\* RESET_STREAM_AT frame, the reliable size, which may not exceed the final
\* size
DecodeRstStreamFrame(buf, reliable) ==
    LET streamId == DecodeQuicInteger(buf)
        errorCode == DecodeQuicInteger(streamId.rest)
        finalSize == DecodeQuicInteger(errorCode.rest)
        reliableSize == DecodeQuicInteger(finalSize.rest)
    IN  IF ~streamId.ok \/ ~errorCode.ok \/ ~finalSize.ok THEN NoRstStreamFrame
        ELSE IF reliable /\ ~reliableSize.ok THEN NoRstStreamFrame
        ELSE IF reliable /\ reliableSize.value > finalSize.value
        THEN NoRstStreamFrame
        ELSE [error |-> FALSE, streamId |-> streamId.value,
              errorCode |-> errorCode.value, finalSize |-> finalSize.value,
              hasReliableSize |-> reliable,
              reliableSize |-> IF reliable THEN reliableSize.value ELSE 0]

\* parseFrame: reads the frame type and dispatches on it
ParseRstFrame(buf) ==
    LET frameType == DecodeQuicInteger(buf)
    IN  IF ~frameType.ok THEN NoRstStreamFrame
        ELSE IF frameType.value = 4
        THEN DecodeRstStreamFrame(frameType.rest, FALSE)
        ELSE IF frameType.value = 36
        THEN DecodeRstStreamFrame(frameType.rest, TRUE)
        ELSE NoRstStreamFrame

\* createRstStreamFrame has written a frame and the test has trimmed up to
\* MaxTrim bytes from its end
InitRst ==
    /\ \E in \in [streamId : {0, 4, 64},
                  errorCode : {0, 16384},
                  finalSize : {0, 10, 63, 64, 16384},
                  reliableSize : {0, 9, 10, 11, 63, 64, 16383, 16384, 16385},
                  hasReliableSize : BOOLEAN,
                  trimEnd : 0..MaxTrim] :
          /\ ~in.hasReliableSize => in.reliableSize = 0
          /\ conn = [written |-> in,
                     buf |-> SubSeq(CreateRstStreamFrame(in), 1,
                                    Len(CreateRstStreamFrame(in))
                                    - in.trimEnd),
                     parsed |-> FALSE,
                     frame |-> NoRstStreamFrame]
    /\ hist = <<>>
    /\ lossBuf = <<>>
    /\ lossBufMetas = <<>>

\* the frame in the buffer is parsed
RstParse ==
    /\ ~conn.parsed
    /\ conn' = [conn EXCEPT !.parsed = TRUE, !.frame = ParseRstFrame(conn.buf)]
    /\ UNCHANGED <<hist, lossBuf, lossBufMetas>>

NextRst == RstParse

SpecRst == InitRst /\ [][NextRst]_vars

\* C28: parsing a RESET_STREAM_AT frame fails with a transport error
\* whenever its reliable size exceeds its final size, and, when the frame is
\* whole and the reliable size is at most the final size, gives back the
\* stream id, the error code, the final size and the reliable size that
\* were written
C28_RstStreamAt ==
    (conn.parsed /\ conn.written.hasReliableSize) =>
        /\ conn.written.reliableSize > conn.written.finalSize
               => conn.frame.error
        /\ (conn.written.reliableSize <= conn.written.finalSize
            /\ conn.written.trimEnd = 0)
               => /\ ~conn.frame.error
                  /\ conn.frame.hasReliableSize
                  /\ conn.frame.streamId = conn.written.streamId
                  /\ conn.frame.errorCode = conn.written.errorCode
                  /\ conn.frame.finalSize = conn.written.finalSize
                  /\ conn.frame.reliableSize = conn.written.reliableSize

\* the frame of DecodeTest.RstStreamAtFrameRelSizeGreaterThanOffset: whole,
\* final size 10, reliable size 11, and rejected
C28_Witness ==
    /\ conn.parsed
    /\ conn.written.hasReliableSize
    /\ conn.written.trimEnd = 0
    /\ conn.written.streamId = 0
    /\ conn.written.errorCode = 0
    /\ conn.written.finalSize = 10
    /\ conn.written.reliableSize = 11
    /\ conn.frame.error


\* ------------------------------------------------------------------------
\* PADDING frames: decodePaddingFrame on a cursor over a buffer of bytes
\* ------------------------------------------------------------------------

\* the longest buffer handed to decodePaddingFrame
MaxPadLen == 4

\* the bytes of a buffer: padding is 0, 5 is "something which is not padding"
PadBytes == {0, 1, 5}

PadBuffers == UNION {[1..n -> PadBytes] : n \in 0..MaxPadLen}

OnlyPadding(buf) == \A i \in 1..Len(buf) : buf[i] = 0

\* the bytes of a buffer from its first non-padding byte on
RECURSIVE AfterPaddingRun(_)
AfterPaddingRun(buf) ==
    IF buf = <<>> \/ Head(buf) # 0 THEN buf ELSE AfterPaddingRun(Tail(buf))

\* decodePaddingFrame: a buffer of nothing but padding is skipped to its end,
\* and a buffer in which another frame is interleaved is left as it is
DecodePaddingFrame(buf) == IF OnlyPadding(buf) THEN <<>> ELSE buf

\* a test has filled the buffer
InitPad ==
    /\ conn \in [buf : PadBuffers, left : {<<>>}, decoded : {FALSE}]
    /\ hist = <<>>
    /\ lossBuf = <<>>
    /\ lossBufMetas = <<>>

\* decodePaddingFrame(cursor); left is what the cursor still holds
PadDecode ==
    /\ ~conn.decoded
    /\ conn' = [conn EXCEPT !.decoded = TRUE,
                            !.left = DecodePaddingFrame(conn.buf)]
    /\ UNCHANGED <<hist, lossBuf, lossBufMetas>>

NextPad == PadDecode

SpecPad == InitPad /\ [][NextPad]_vars

\* C29: decodePaddingFrame consumes a buffer that holds only padding to its
\* end, and consumes nothing of a buffer in which a non-padding byte
\* follows the padding: the whole buffer, the padding run included, is left
\* for the caller
C29_PaddingAllOrNothing ==
    conn.decoded =>
        /\ OnlyPadding(conn.buf) => conn.left = <<>>
        /\ ~OnlyPadding(conn.buf) => Len(conn.left) = Len(conn.buf)

\* C29 as stated: the run of padding is consumed and exactly the bytes from
\* the first non-padding byte on are left
C29_PaddingRunConsumed ==
    conn.decoded => conn.left = AfterPaddingRun(conn.buf)

\* padding followed by a byte that is not padding has been decoded and the
\* cursor holds as many bytes as before
C29_Witness ==
    /\ conn.decoded
    /\ Len(conn.buf) = MaxPadLen
    /\ \A i \in 1..(MaxPadLen - 1) : conn.buf[i] = 0
    /\ conn.buf[MaxPadLen] = 5
    /\ Len(conn.left) = MaxPadLen


\* ------------------------------------------------------------------------
\* QuicStreamAsyncTransport: the read side of the adapter between a
\* folly::AsyncTransport::ReadCallback and one stream of a QuicSocket
\* ------------------------------------------------------------------------

\* the number of bytes the peer echoes and of setReadCB calls of the
\* application
MaxEchoBytes == 3

MaxSetReadCB == 3

\* createClient(setReadCB): a stream adapter whose socket read callback is
\* installed, reading paused unless the application gave a callback
NewAsyncTransport(setReadCB) ==
    [readCb_ |-> IF setReadCB THEN "readCb" ELSE "nullptr",
     installed |-> TRUE,
     resumed |-> setReadCB,
     received |-> 0,
     receivedPaused |-> 0,
     readBuffer |-> 0,
     finReceived |-> FALSE,
     delivered |-> 0,
     readEOF_ |-> "NOT_SEEN",
     setReadCBs |-> 0]

\* QuicSocket::setReadCallback(id, nullptr): the callback is uninstalled for
\* good, a later callback is refused
UninstallReadCallback(t, resume) ==
    IF resume THEN t ELSE [t EXCEPT !.installed = FALSE, !.resumed = FALSE]

\* QuicSocket::pauseRead / resumeRead: no effect once the socket's read
\* callback is uninstalled
PauseOrResumeRead(t, resume) ==
    IF t.installed THEN [t EXCEPT !.resumed = resume] ELSE t

\* QuicStreamAsyncTransport::setReadCB: nullptr pauses the reads of the
\* stream, a callback resumes them
SetReadCBOf(t, cb) ==
    PauseOrResumeRead([t EXCEPT !.readCb_ = cb,
                                !.setReadCBs = t.setReadCBs + 1],
                      cb # "nullptr")

\* handleRead: the buffered bytes go to readDataAvailable, and the end of
\* the stream, once nothing is left to read, to readEOF
HandleRead(t) ==
    [t EXCEPT !.delivered = t.delivered + t.readBuffer,
              !.readBuffer = 0,
              !.readEOF_ = IF t.finReceived THEN "DELIVERED"
                           ELSE t.readEOF_]

\* the socket has something to tell a reader of the stream
Readable(t) ==
    \/ t.readBuffer > 0
    \/ t.finReceived /\ t.readEOF_ # "DELIVERED"

InitAsync ==
    /\ \E setReadCB \in BOOLEAN : conn = NewAsyncTransport(setReadCB)
    /\ hist = <<>>
    /\ lossBuf = <<>>
    /\ lossBufMetas = <<>>

\* transport->setReadCB(cb)
AsyncSetReadCB(cb) ==
    /\ conn.setReadCBs < MaxSetReadCB
    /\ conn.readEOF_ # "DELIVERED"
    /\ conn' = SetReadCBOf(conn, cb)
    /\ UNCHANGED <<hist, lossBuf, lossBufMetas>>

\* stream data of the peer arrives
AsyncPeerData ==
    /\ conn.received < MaxEchoBytes
    /\ ~conn.finReceived
    /\ conn' = [conn EXCEPT
           !.received = conn.received + 1,
           !.readBuffer = conn.readBuffer + 1,
           !.receivedPaused = conn.receivedPaused
                              + (IF conn.readCb_ = "nullptr" THEN 1 ELSE 0)]
    /\ UNCHANGED <<hist, lossBuf, lossBufMetas>>

\* the peer finishes the stream
AsyncPeerFin ==
    /\ ~conn.finReceived
    /\ conn' = [conn EXCEPT !.finReceived = TRUE]
    /\ UNCHANGED <<hist, lossBuf, lossBufMetas>>

\* the read looper of the socket: readAvailable on a stream that is
\* installed, resumed and readable, and the adapter's handleRead
AsyncReadAvailable ==
    /\ conn.installed
    /\ conn.resumed
    /\ Readable(conn)
    /\ conn' = HandleRead(conn)
    /\ UNCHANGED <<hist, lossBuf, lossBufMetas>>

NextAsync ==
    \/ \E cb \in {"nullptr", "readCb"} : AsyncSetReadCB(cb)
    \/ AsyncPeerData
    \/ AsyncPeerFin
    \/ AsyncReadAvailable

SpecAsync ==
    InitAsync /\ [][NextAsync]_vars /\ WF_vars(AsyncReadAvailable)

\* the application has made its last setReadCB call and left a callback
ReadCallbackSetForGood ==
    /\ conn.setReadCBs = MaxSetReadCB
    /\ conn.readCb_ = "readCb"

\* everything received has been handed to the callback, and readEOF has
\* been called if the peer has finished
AllDelivered ==
    /\ conn.delivered = conn.received
    /\ conn.finReceived => conn.readEOF_ = "DELIVERED"

\* C30: readDataAvailable and readEOF are never invoked while the read
\* callback is nullptr; nothing received is dropped while reading is paused
\* and readEOF comes after all the data; and once the application has set
\* a callback again, all the data received in the meantime is delivered,
\* followed by readEOF if the peer has finished
C30_SetReadCbNullptrPauses ==
    /\ [][(conn'.delivered # conn.delivered
           \/ conn'.readEOF_ # conn.readEOF_)
              => conn.readCb_ = "readCb"]_vars
    /\ [](conn.delivered + conn.readBuffer = conn.received)
    /\ [](conn.readEOF_ = "DELIVERED" => conn.delivered = conn.received)
    /\ (ReadCallbackSetForGood ~> AllDelivered)

\* data that arrived while the callback was nullptr has been delivered and
\* readEOF called after a later setReadCB
C30_Witness ==
    /\ conn.receivedPaused = MaxEchoBytes
    /\ conn.setReadCBs >= 2
    /\ conn.delivered = MaxEchoBytes
    /\ conn.readEOF_ = "DELIVERED"


\* ------------------------------------------------------------------------
\* QuicStreamAsyncTransport: the write side of the adapter. Accepted bytes
\* wait in writeBuf_, are handed to the stream of the socket when the socket
\* reports room, and reach the wire when the socket writes
\* ------------------------------------------------------------------------

\* the number of bytes the application writes in all, and the largest write
MaxAcceptedBytes == 4

MaxWriteLen == 2

\* the adapter after createClient, with the stream flow-control window the
\* peer advertised
NewAsyncWriter(window) ==
    [writeBuf_ |-> 0,
     streamBuffered |-> 0,
     streamWriteOffset |-> 0,
     peerMaxOffset |-> window,
     writeCallbacks_ |-> <<>>,
     accepted |-> <<>>,
     fired |-> <<>>,
     handlers |-> 0]

\* getAppBytesWritten: what is on the wire, what the socket buffers and what
\* the adapter buffers
GetAppBytesWritten(t) == t.streamWriteOffset + t.streamBuffered + t.writeBuf_

\* the end offset a write callback waits for, without the bytes the socket
\* still buffers
WriteOffsetWithoutSocketBuffer(t) == t.streamWriteOffset + t.writeBuf_

\* the end offset a write callback waits for: the offset after everything
\* accepted, the new bytes included
WriteOffset(t) == GetAppBytesWritten(t)

\* writeChain: the bytes are appended to writeBuf_ and the callback is
\* queued with the offset its last byte ends at; inHandler is the number of
\* the onStreamWriteReady call the write was made from, 0 outside of one
WriteChain(t, len, inHandler) ==
    LET buffered == [t EXCEPT !.writeBuf_ = t.writeBuf_ + len]
        cb == Len(t.accepted) + 1
    IN  [buffered EXCEPT
            !.writeCallbacks_ = Append(t.writeCallbacks_,
                                       [offset |-> WriteOffset(buffered),
                                        cb |-> cb]),
            !.accepted = Append(t.accepted,
                                [cb |-> cb,
                                 offset |-> GetAppBytesWritten(t),
                                 len |-> len,
                                 inHandler |-> inHandler])]

\* invokeWriteCallbacks: writeSuccess for every queued callback whose offset
\* has been handed to the socket; the first callback called writes nested
\* bytes from inside writeSuccess
RECURSIVE InvokeWriteCallbacks(_, _, _)
InvokeWriteCallbacks(t, sentOffset, nested) ==
    IF t.writeCallbacks_ = <<>> \/ Head(t.writeCallbacks_).offset > sentOffset
    THEN t
    ELSE LET called == [t EXCEPT
                 !.writeCallbacks_ = Tail(t.writeCallbacks_),
                 !.fired = Append(t.fired,
                                  [cb |-> Head(t.writeCallbacks_).cb,
                                   handler |-> t.handlers])]
         IN  InvokeWriteCallbacks(
                 IF nested > 0 THEN WriteChain(called, nested, t.handlers)
                 ELSE called,
                 sentOffset, 0)

\* getMaxWritableOnStream: the room the flow-control window of the peer
\* leaves behind what the socket has accepted
MaxToSend(t) == t.peerMaxOffset - (t.streamWriteOffset + t.streamBuffered)

\* onStreamWriteReady: send(maxToSend) hands min(maxToSend, writeBuf_) bytes
\* to the socket, then invokeWriteCallbacks(sentOffset)
OnStreamWriteReady(t, nested) ==
    LET toSend == Min(MaxToSend(t), t.writeBuf_)
        sentOffset == t.streamWriteOffset + t.streamBuffered + toSend
    IN  InvokeWriteCallbacks(
            [t EXCEPT !.writeBuf_ = t.writeBuf_ - toSend,
                      !.streamBuffered = t.streamBuffered + toSend,
                      !.handlers = t.handlers + 1],
            sentOffset, nested)

InitAsyncWrite ==
    /\ \E window \in 1..MaxWriteLen : conn = NewAsyncWriter(window)
    /\ hist = <<>>
    /\ lossBuf = <<>>
    /\ lossBufMetas = <<>>

\* transport->writeChain(&writeCb, data) from the application
AsyncWriteChain(len) ==
    /\ GetAppBytesWritten(conn) + len <= MaxAcceptedBytes
    /\ conn' = WriteChain(conn, len, 0)
    /\ UNCHANGED <<hist, lossBuf, lossBufMetas>>

\* the socket reports room on the stream; the first writeSuccess called
\* writes nested more bytes
AsyncStreamWriteReady(nested) ==
    /\ conn.writeBuf_ > 0
    /\ MaxToSend(conn) > 0
    /\ GetAppBytesWritten(conn) + nested <= MaxAcceptedBytes
    /\ conn' = OnStreamWriteReady(conn, nested)
    /\ UNCHANGED <<hist, lossBuf, lossBufMetas>>

\* the socket writes what the stream buffers
AsyncSocketWrite ==
    /\ conn.streamBuffered > 0
    /\ conn' = [conn EXCEPT
           !.streamWriteOffset = conn.streamWriteOffset + conn.streamBuffered,
           !.streamBuffered = 0]
    /\ UNCHANGED <<hist, lossBuf, lossBufMetas>>

\* MAX_STREAM_DATA of the peer opens the window of the stream
AsyncMaxStreamData ==
    /\ conn.peerMaxOffset < MaxAcceptedBytes
    /\ conn' = [conn EXCEPT !.peerMaxOffset = conn.peerMaxOffset + 1]
    /\ UNCHANGED <<hist, lossBuf, lossBufMetas>>

NextAsyncWrite ==
    \/ \E len \in 1..MaxWriteLen : AsyncWriteChain(len)
    \/ \E nested \in 0..MaxWriteLen : AsyncStreamWriteReady(nested)
    \/ AsyncSocketWrite
    \/ AsyncMaxStreamData

SpecAsyncWrite ==
    /\ InitAsyncWrite
    /\ [][NextAsyncWrite]_vars
    /\ WF_vars(\E nested \in 0..MaxWriteLen : AsyncStreamWriteReady(nested))
    /\ WF_vars(AsyncSocketWrite)
    /\ WF_vars(AsyncMaxStreamData)


RECURSIVE AcceptedBefore(_, _)
AcceptedBefore(accepted, i) ==
    IF i <= 1 THEN 0
    ELSE AcceptedBefore(accepted, i - 1) + accepted[i - 1].len

\* every write was accepted at the offset after all the bytes accepted
\* before it, and getAppBytesWritten is the sum of the accepted writes
AcceptedInSequence ==
    /\ \A i \in 1..Len(conn.accepted) :
           conn.accepted[i].offset = AcceptedBefore(conn.accepted, i)
    /\ GetAppBytesWritten(conn)
           = AcceptedBefore(conn.accepted, Len(conn.accepted) + 1)

\* writeSuccess is called in the order of the writes, and for a write made
\* from inside writeSuccess in a later onStreamWriteReady call than the one
\* it was made in
WriteSuccessInOrder ==
    \A k \in 1..Len(conn.fired) :
        /\ conn.fired[k].cb = k
        /\ conn.accepted[k].inHandler < conn.fired[k].handler

\* C31: a write made from inside a writeSuccess callback is accepted at the
\* stream offset after all the bytes accepted before it, getAppBytesWritten
\* being the sum of the accepted writes; its writeSuccess is called after
\* that of the earlier write and in a later call of the adapter; and all
\* accepted bytes are eventually written to the peer and every writeSuccess
\* called
C31_WriteFromWriteSuccess ==
    /\ [](AcceptedInSequence /\ WriteSuccessInOrder)
    /\ \A k \in 1..MaxAcceptedBytes :
           (GetAppBytesWritten(conn) >= k) ~> (conn.streamWriteOffset >= k)
    /\ \A n \in 1..MaxAcceptedBytes :
           (Len(conn.accepted) >= n) ~> (Len(conn.fired) >= n)

\* a write made from inside writeSuccess, while the socket still buffered
\* the bytes of the write before it, has had its own writeSuccess and all
\* the bytes have been written
C31_Witness ==
    /\ \E i \in 1..Len(conn.fired) :
           /\ conn.accepted[i].inHandler > 0
           /\ conn.accepted[i].offset > 0
    /\ Len(conn.fired) = Len(conn.accepted)
    /\ conn.streamWriteOffset = MaxAcceptedBytes


-----------------------------------------------------------------------------
(* The packet limit of one writeData call of the server                    *)

\* C32: in a writeData call on an open connection the remaining packetLimit
\* never wraps below zero when the packets written by the 1-RTT write path,
\* probes included, are taken from it
C32_PacketLimitNeverWraps ==
    hist.op = "writeOpen" => ~conn.packetLimitWrapped


-----------------------------------------------------------------------------
(* The minimum congestion window of the BBRv2 controller                   *)

\* getWritableBytes
GetWritableBytes(b) ==
    IF b.cwndBytes_ > b.inflightBytes THEN b.cwndBytes_ - b.inflightBytes ELSE 0

-----------------------------------------------------------------------------
(* The end of the handshake: crypto data is written in the Initial and the  *)
(* Handshake space, packets are acknowledged and declared lost, and         *)
(* handshakeConfirmed drops the two spaces.                                 *)

\* packets written, and packets of crypto data handed over per space
MaxCryptoPackets == 4

MaxCryptoOffset == 3

CryptoSpaces == {"Initial", "Handshake"}

NewCryptoStream ==
    [pendingWrites |-> 0, currentWriteOffset |-> 0,
     retransmissionBuffer |-> {}, lossBuffer |-> {}]

\* a connection at the start of the handshake
NewHandshakeConn ==
    [initialWriteCipher |-> TRUE,
     handshakeWriteCipher |-> FALSE,
     oneRttWriteCipher |-> FALSE,
     ackStates |-> [sp \in CryptoSpaces |-> TRUE],
     outstandings |-> <<>>,
     nextPacketNum |-> [sp \in CryptoSpaces |-> 0],
     cryptoState |-> [sp \in CryptoSpaces |-> NewCryptoStream],
     \* packets the loss visitor of an implicit ack was called for
     lostByImplicitAck |-> 0,
     fault |-> NoFault]

HasCryptoCipher(c, sp) ==
    IF sp = "Initial" THEN c.initialWriteCipher ELSE c.handshakeWriteCipher

\* the packet numbers outstanding in a space
OutstandingNums(c, sp) ==
    {c.outstandings[i].packetNum :
        i \in {k \in 1..Len(c.outstandings) : c.outstandings[k].space = sp}}

\* the outstanding packets without those of a space whose number is in nums
RECURSIVE WithoutPackets(_, _, _)
WithoutPackets(packets, sp, nums) ==
    IF packets = <<>> THEN <<>>
    ELSE IF Head(packets).space = sp /\ Head(packets).packetNum \in nums
    THEN WithoutPackets(Tail(packets), sp, nums)
    ELSE <<Head(packets)>> \o WithoutPackets(Tail(packets), sp, nums)

\* the offsets of the crypto frames of the packets of a space in nums
CryptoOffsets(c, sp, nums) ==
    {c.outstandings[i].offset :
        i \in {k \in 1..Len(c.outstandings) :
                  /\ c.outstandings[k].space = sp
                  /\ c.outstandings[k].packetNum \in nums}}

\* processAckFrame for the ack block [start, largestAcked] of a space: the
\* outstanding packets in the block are removed and their crypto frames
\* acked (processCryptoStreamAck); the packets of the space left below
\* largestAcked are declared lost, their frames going to the loss buffer
ProcessAckFrame(c, sp, start, largestAcked, implicit) ==
    LET acked == {n \in OutstandingNums(c, sp) : start <= n /\ n <= largestAcked}
        lost == {n \in OutstandingNums(c, sp) \ acked : n < largestAcked}
    IN  [c EXCEPT
           !.outstandings = WithoutPackets(@, sp, acked \cup lost),
           !.cryptoState[sp].retransmissionBuffer =
               @ \ (CryptoOffsets(c, sp, acked) \cup CryptoOffsets(c, sp, lost)),
           !.cryptoState[sp].lossBuffer = @ \cup CryptoOffsets(c, sp, lost),
           !.lostByImplicitAck =
               IF implicit THEN @ + Cardinality(lost) ELSE @,
           !.fault = IF implicit /\ lost # {} /\ @ = NoFault THEN "fatal" ELSE @]

SetMin(nums) == CHOOSE n \in nums : \A m \in nums : n <= m

SetMax(nums) == CHOOSE n \in nums : \A m \in nums : m <= n

\* what implicitAckCryptoStream does after processAckFrame: the loss buffer
\* is cleared, retransmissionBuffer and pendingWrites are CHECKed to be
\* empty
ClearCryptoStream(c, sp) ==
    [c EXCEPT
       !.cryptoState[sp].lossBuffer = {},
       !.fault = IF @ = NoFault
                    /\ (c.cryptoState[sp].retransmissionBuffer # {}
                        \/ c.cryptoState[sp].pendingWrites > 0)
                 THEN "check" ELSE @]

\* implicitAckCryptoStream with an implicit ack of the largest outstanding
\* packet only
ImplicitAckLargestOnly(c, sp) ==
    IF OutstandingNums(c, sp) = {} THEN c
    ELSE ClearCryptoStream(
             ProcessAckFrame(c, sp, SetMax(OutstandingNums(c, sp)),
                             SetMax(OutstandingNums(c, sp)), TRUE),
             sp)

\* implicitAckCryptoStream: nothing is done when no packet of the space is
\* outstanding; otherwise one ack block from the smallest to the largest
\* outstanding packet number of the space is processed
ImplicitAckCryptoStream(c, sp) ==
    IF OutstandingNums(c, sp) = {} THEN c
    ELSE ClearCryptoStream(
             ProcessAckFrame(c, sp, SetMin(OutstandingNums(c, sp)),
                             SetMax(OutstandingNums(c, sp)), TRUE),
             sp)

\* handshakeConfirmed
HandshakeConfirmed(c) ==
    LET c1 == ImplicitAckCryptoStream(
                  [c EXCEPT !.initialWriteCipher = FALSE], "Initial")
        c2 == [c1 EXCEPT !.ackStates["Initial"] = FALSE,
                         !.handshakeWriteCipher = FALSE]
        c3 == ImplicitAckCryptoStream(c2, "Handshake")
    IN  [c3 EXCEPT !.ackStates["Handshake"] = FALSE]

\* the last operation, and for handshakeConfirmed the spaces that had
\* outstanding packets and the spaces that had lost data when it was called
HsHist(op, c) ==
    [op |-> op,
     hadOutstanding |-> {sp \in CryptoSpaces : OutstandingNums(c, sp) # {}},
     hadLoss |-> {sp \in CryptoSpaces : c.cryptoState[sp].lossBuffer # {}}]

InitHs ==
    /\ conn = NewHandshakeConn
    /\ hist = HsHist("init", NewHandshakeConn)
    /\ lossBuf = <<>>
    /\ lossBufMetas = <<>>

HsRunning == conn.fault = NoFault /\ hist.op # "confirmed"

\* the handshake layer derives the next write cipher
HsInstallCipher ==
    /\ HsRunning
    /\ ~conn.oneRttWriteCipher
    /\ conn' = IF conn.handshakeWriteCipher
               THEN [conn EXCEPT !.oneRttWriteCipher = TRUE]
               ELSE [conn EXCEPT !.handshakeWriteCipher = TRUE]
    /\ hist' = HsHist("cipher", conn)
    /\ UNCHANGED <<lossBuf, lossBufMetas>>

\* the handshake layer writes one packet of crypto data to a crypto stream
HsCryptoData(sp) ==
    /\ HsRunning
    /\ HasCryptoCipher(conn, sp)
    /\ conn.cryptoState[sp].pendingWrites = 0
    /\ conn.cryptoState[sp].currentWriteOffset < MaxCryptoOffset
    /\ conn' = [conn EXCEPT !.cryptoState[sp].pendingWrites = 1]
    /\ hist' = HsHist("data", conn)
    /\ UNCHANGED <<lossBuf, lossBufMetas>>

\* a packet with one crypto frame is written: lost data first, then new data
HsWrite(sp) ==
    /\ HsRunning
    /\ HasCryptoCipher(conn, sp)
    /\ conn.nextPacketNum["Initial"] + conn.nextPacketNum["Handshake"]
           < MaxCryptoPackets
    /\ LET stream == conn.cryptoState[sp]
           retx == stream.lossBuffer # {}
           offset == IF retx THEN SetMin(stream.lossBuffer)
                     ELSE stream.currentWriteOffset
       IN  /\ retx \/ stream.pendingWrites > 0
           /\ conn' = [conn EXCEPT
                  !.outstandings = Append(@, [space |-> sp,
                                              packetNum |-> conn.nextPacketNum[sp],
                                              offset |-> offset]),
                  !.nextPacketNum[sp] = @ + 1,
                  !.cryptoState[sp] =
                      [stream EXCEPT
                         !.lossBuffer = @ \ {offset},
                         !.retransmissionBuffer = @ \cup {offset},
                         !.pendingWrites = IF retx THEN @ ELSE @ - 1,
                         !.currentWriteOffset = IF retx THEN @ ELSE @ + 1]]
    /\ hist' = HsHist("write", conn)
    /\ UNCHANGED <<lossBuf, lossBufMetas>>

\* an ACK frame of the peer acknowledges one outstanding packet; the packets
\* of the space sent before it are declared lost
HsAck(sp, n) ==
    /\ HsRunning
    /\ HasCryptoCipher(conn, sp)
    /\ n \in OutstandingNums(conn, sp)
    /\ conn' = ProcessAckFrame(conn, sp, n, n, FALSE)
    /\ hist' = HsHist("ack", conn)
    /\ UNCHANGED <<lossBuf, lossBufMetas>>

\* handshakeConfirmed, which CHECKs the 1-RTT ciphers
HsHandshakeConfirmed ==
    /\ HsRunning
    /\ conn.oneRttWriteCipher
    /\ conn' = HandshakeConfirmed(conn)
    /\ hist' = HsHist("confirmed", conn)
    /\ UNCHANGED <<lossBuf, lossBufMetas>>

NextHs ==
    \/ HsInstallCipher
    \/ \E sp \in CryptoSpaces : HsCryptoData(sp)
    \/ \E sp \in CryptoSpaces : HsWrite(sp)
    \/ \E sp \in CryptoSpaces, n \in 0..(MaxCryptoPackets - 1) : HsAck(sp, n)
    \/ HsHandshakeConfirmed

SpecHs == InitHs /\ [][NextHs]_vars

CryptoStreamEmpty(c, sp) ==
    /\ c.cryptoState[sp].lossBuffer = {}
    /\ c.cryptoState[sp].retransmissionBuffer = {}
    /\ c.cryptoState[sp].pendingWrites = 0

\* the ciphers and ack states of the two spaces are dropped, no packet of
\* them is outstanding and the implicit acks declared nothing lost
SpacesDropped(c) ==
    /\ ~c.initialWriteCipher /\ ~c.handshakeWriteCipher
    /\ \A sp \in CryptoSpaces : ~c.ackStates[sp]
    /\ \A sp \in CryptoSpaces : OutstandingNums(c, sp) = {}
    /\ c.lostByImplicitAck = 0

\* C34 as stated: when handshakeConfirmed completes, the spaces are dropped
\* and both crypto streams hold no data in lossBuffer, retransmissionBuffer
\* or pendingWrites
C34_CryptoStreamsEmpty ==
    (hist.op = "confirmed" /\ conn.fault = NoFault) =>
        /\ SpacesDropped(conn)
        /\ \A sp \in CryptoSpaces : CryptoStreamEmpty(conn, sp)

\* C34: when handshakeConfirmed completes, the Initial and Handshake write
\* ciphers and ack states are dropped, no packet of the two spaces is
\* outstanding and the implicit acks have declared no packet lost; the
\* crypto stream of a space that had outstanding packets holds no data in
\* lossBuffer, retransmissionBuffer or pendingWrites, and the crypto stream
\* of a space that had none is left as it was, lost and pending data included
C34_HandshakeConfirmed ==
    [][/\ conn'.lostByImplicitAck = 0
       /\ (hist'.op = "confirmed" /\ conn'.fault = NoFault) =>
          /\ SpacesDropped(conn')
          /\ \A sp \in CryptoSpaces :
                IF sp \in hist'.hadOutstanding
                THEN CryptoStreamEmpty(conn', sp)
                ELSE conn'.cryptoState[sp] = conn.cryptoState[sp]]_vars

\* handshakeConfirmed has completed with packets outstanding in both spaces
\* and lost Initial data not yet retransmitted
C34_Witness ==
    /\ hist.op = "confirmed"
    /\ conn.fault = NoFault
    /\ hist.hadOutstanding = CryptoSpaces
    /\ "Initial" \in hist.hadLoss
    /\ \A sp \in CryptoSpaces : CryptoStreamEmpty(conn, sp)


-----------------------------------------------------------------------------
(* CONNECTION_CLOSE packets after a local close *)

ClosePacketsSent(c) == (c.totalBytesSent - c.bytesSentAtClose) \div ClosePacketLen

ReceivedAfterClose(c) == c.receivedUdpPackets - c.receivedUdpPacketsAtClose

CiphersHeld(c) == Cardinality({sp \in Spaces : SpaceHasCipher(c, sp)})

\* a writeData call on a connection closed from the local side
LocalCloseWriteStep ==
    /\ conn.closed /\ ~conn.peerConnectionError
    /\ hist'.op = "writeClosed"

\* C35 as stated: on a connection closed from the local side, the number of
\* close packets sent is bounded by the number of packets received after
\* closing
C35_ClosePacketsBoundedByReceived ==
    (conn.closed /\ ~conn.peerConnectionError) =>
        ClosePacketsSent(conn) <= ReceivedAfterClose(conn)

\* C35: on a connection closed from the local side, a writeData call writes
\* nothing when a close packet has been sent and no UDP packet has arrived
\* since; otherwise (the first call after the close, or a packet has
\* arrived since the last close packet) it writes one close packet for
\* every write cipher held and nothing else; the close packets sent number
\* at most (1 + packets received after closing) for each cipher
C35_CloseOnlyAfterNewPacket ==
    [][LocalCloseWriteStep =>
          /\ IF /\ HasReceivedUdpPacketsAtLastCloseSent(conn)
                /\ HasNotReceivedNewPacketsSinceLastCloseSent(conn)
             THEN conn'.wire = <<>> /\ conn'.totalBytesSent = conn.totalBytesSent
             ELSE /\ \A i \in 1..Len(conn'.wire) : IsClosePacket(conn'.wire[i])
                  /\ \A sp \in Spaces :
                        Cardinality({i \in 1..Len(conn'.wire) :
                                        conn'.wire[i].space = sp})
                          = (IF SpaceHasCipher(conn, sp) THEN 1 ELSE 0)
                  /\ HasNotReceivedNewPacketsSinceLastCloseSent(conn')
          /\ ClosePacketsSent(conn')
                <= CiphersHeld(conn') * (1 + ReceivedAfterClose(conn'))]_vars

\* after a local close a round of close packets went out at once, another
\* after a packet arrived, and the writeData call after that wrote nothing
C35_Witness ==
    /\ conn.closed /\ ~conn.peerConnectionError
    /\ hist.op = "writeClosed"
    /\ ReceivedAfterClose(conn) = 1
    /\ ClosePacketsSent(conn) = 2 * CiphersHeld(conn)
    /\ conn.wire = <<>>


-----------------------------------------------------------------------------
(* The buffered-write model: crypto data is written on a socket whose      *)
(* writes fail with retryable errors; the batch writer keeps the batch of  *)
(* a failed write and the next call flushes it first.                      *)

MaxFlushPackets == 3

MaxErrnoCount == 2

RetryableErrnos == {"EAGAIN", "EWOULDBLOCK", "ENOBUFS"}

FlushHist(op, errno) == [op |-> op, errno |-> errno]

InitFlush ==
    /\ conn = [NewConn(FALSE, 0, 0) EXCEPT !.initialWriteCipher = TRUE]
    /\ hist = FlushHist("init", "none")
    /\ lossBuf = <<>>
    /\ lossBufMetas = <<>>

\* the handshake layer has one more packet of crypto data
FlushCryptoData ==
    /\ Running(conn)
    /\ conn.totalPacketsSent + conn.cryptoStreams["Initial"].pendingWrites
          < MaxFlushPackets
    /\ conn' = [StartWrite(conn) EXCEPT !.cryptoStreams["Initial"].pendingWrites = @ + 1]
    /\ hist' = FlushHist("data", "none")
    /\ UNCHANGED <<lossBuf, lossBufMetas>>

\* the batch writer keeps the batch of a write that failed
KeepFailedBatch(c) ==
    IF c.noWriteReason = "SOCKET_FAILURE"
    THEN [c EXCEPT !.pendingWriteBatch = TRUE] ELSE c

\* writeConnectionDataToSocket runs while the socket accepts writes
\* (errno "none") or fails them with a retryable error
FlushWrite(errno, packetLimit) ==
    /\ Running(conn)
    /\ conn.eagainOrEwouldblockCount + conn.enobufsCount < MaxErrnoCount
    /\ conn' = KeepFailedBatch(
                   WriteConnectionDataToSocket(
                       [StartWrite(conn) EXCEPT !.flushErrno = errno,
                                                !.writeSuccess = (errno = "none")],
                       "Initial", "crypto", "unlimitedWritableBytes", packetLimit))
    /\ hist' = FlushHist("write", errno)
    /\ UNCHANGED <<lossBuf, lossBufMetas>>

\* the peer acknowledges an outstanding packet
FlushAck(i) ==
    /\ Running(conn)
    /\ i \in 1..Len(conn.outstandings)
    /\ conn' = OnPacketAcked(StartWrite(conn), i)
    /\ hist' = FlushHist("ack", "none")
    /\ UNCHANGED <<lossBuf, lossBufMetas>>

NextFlush ==
    \/ FlushCryptoData
    \/ \E errno \in RetryableErrnos \cup {"none"}, packetLimit \in 1..2 :
          FlushWrite(errno, packetLimit)
    \/ \E i \in 1..MaxFlushPackets : FlushAck(i)

SpecFlush == InitFlush /\ [][NextFlush]_vars

\* a call of writeConnectionDataToSocket with a pending batch whose flush
\* fails
FailedFlushStep ==
    /\ hist'.op = "write"
    /\ conn.pendingWriteBatch
    /\ hist'.errno # "none"

\* C36: with a batch of an earlier failed write pending,
\* writeConnectionDataToSocket flushes it before it schedules anything; when
\* the flush fails the call writes no packet, takes no packet number, leaves
\* the outstanding packets, the crypto streams and the sent counters as they
\* were and keeps the batch pending, and it counts the errno: EAGAIN and
\* EWOULDBLOCK in eagainOrEwouldblockCount, ENOBUFS in enobufsCount.
C36_FailedFlushWritesNothing ==
    [][FailedFlushStep =>
          /\ conn'.wire = <<>>
          /\ conn'.nextPacketNum = conn.nextPacketNum
          /\ conn'.outstandings = conn.outstandings
          /\ conn'.cryptoStreams = conn.cryptoStreams
          /\ conn'.streams = conn.streams
          /\ conn'.totalPacketsSent = conn.totalPacketsSent
          /\ conn'.totalBytesSent = conn.totalBytesSent
          /\ conn'.pendingWriteBatch
          /\ conn'.eagainOrEwouldblockCount = conn.eagainOrEwouldblockCount
                + (IF hist'.errno \in {"EAGAIN", "EWOULDBLOCK"} THEN 1 ELSE 0)
          /\ conn'.enobufsCount = conn.enobufsCount
                + (IF hist'.errno = "ENOBUFS" THEN 1 ELSE 0)]_vars

\* a flush of the pending batch has failed with ENOBUFS while crypto data
\* was waiting to be written
C36_Witness ==
    /\ hist.op = "write"
    /\ hist.errno = "ENOBUFS"
    /\ conn.pendingWriteBatch
    /\ conn.enobufsCount = 1
    /\ conn.wire = <<>>
    /\ conn.cryptoStreams["Initial"].pendingWrites > 0


-----------------------------------------------------------------------------
(* Probe credit *)

NoProbeCredit(c) == \A sp \in Spaces : c.numProbePackets[sp] = 0

\* the connection after the writer of one packet-number space has run:
\* writeQuicDataToSocketImpl or writeCryptoAndAckDataToSocket
AfterSpaceWriter(c, sp) ==
    IF sp = AppData
    THEN WriteQuicDataToSocketImpl(c, writeConnectionDataPacketsLimit).conn
    ELSE WriteCryptoAndAckDataToSocket(c, sp, writeConnectionDataPacketsLimit).conn

\* the writer of a space, run with probe credit in every space that has a
\* cipher, clears the credit of its space and of no other
SpaceWriterClearsItsCredit(c, sp) ==
    LET credited == OnPTOAlarm(StartWrite(c))
        after == AfterSpaceWriter(credited, sp)
    IN  /\ after.numProbePackets[sp] = 0
        /\ \A other \in Spaces \ {sp} :
              after.numProbePackets[other] = credited.numProbePackets[other]

\* C37: when a writeData call on an open server connection returns,
\* numProbePackets is zero for every packet-number space, whether the probes
\* were written, were stopped by the writable-bytes limit or were never
\* attempted; and the writer of a space clears the credit of its space as
\* soon as it has attempted the probes.
C37_ProbeCreditSingleUse ==
    [][hist'.op = "writeOpen" =>
          /\ NoProbeCredit(conn')
          /\ \A sp \in Spaces :
                SpaceHasCipher(conn, sp) => SpaceWriterClearsItsCredit(conn, sp)]_vars

\* the probes of a PTO were stopped by the writable-bytes limit, and the
\* writeData call that followed wrote nothing: the credit is gone
C37_Witness ==
    /\ hist.op = "writeOpen"
    /\ ~conn.closed
    /\ conn.numProbesWritableBytesLimited > 0
    /\ conn.wire = <<>>
    /\ NoProbeCredit(conn)


-----------------------------------------------------------------------------
(* Probes stopped by the writable-bytes limit: the server model without    *)
(* closes, with a write looper that keeps running.                         *)

MaxProbeBytesReceived == 3

\* a UDP packet of n bytes arrives
ProbeReadData(n) ==
    /\ ~Faulted(conn)
    /\ conn.totalBytesRecvd + n <= MaxProbeBytesReceived
    /\ conn' = OnReadData(StartWrite(conn), n)
    /\ hist' = SrvHist("read", hist.cause)
    /\ UNCHANGED <<lossBuf, lossBufMetas>>

NextProbe ==
    \/ \E n \in 1..MaxProbeBytesReceived : ProbeReadData(n)
    \/ SrvInstallCipher
    \/ \E sp \in Spaces : SrvCryptoData(sp)
    \/ SrvVerifiedClientAddress
    \/ SrvWriteData
    \/ SrvPTO

\* shouldWriteData reports PROBES while a space with a cipher has probe
\* credit, so the write looper runs writeData again and again
WriteLooperRuns == []<>(hist.op = "writeOpen")

SpecProbe == InitSrv /\ [][NextProbe]_vars /\ WriteLooperRuns

\* writableBytesLimit as onReadData reads it
WritableBytesLimitOf(c) ==
    IF c.writableBytesLimit # None THEN c.writableBytesLimit
    ELSE UnlimitedWritableBytes

\* onReadData on an open connection
OpenReadStep == hist'.op = "read" /\ ~conn'.closed

\* the read re-fired the PTO alarm: the counter is reset and every space
\* with a cipher has probe credit
AlarmRefired(c) ==
    /\ c.numProbesWritableBytesLimited = 0
    /\ \A sp \in Spaces :
          c.numProbePackets[sp]
            = (IF SpaceHasCipher(c, sp) THEN kPacketToSendForPTO ELSE 0)

\* a probe is among the packets of the current write: a clone of an
\* outstanding packet or a ping
ProbeOnWire(c) ==
    \E i \in 1..Len(c.wire) : c.wire[i].cloneOf # {} \/ IsPing(c.wire[i].frames)

\* onReadData fires the PTO alarm again and resets the counter when the
\* datagram increased the limit while probes were stopped by it
\* (numProbesWritableBytesLimited > 0), and otherwise leaves the counter and
\* the probe credit unchanged
ReadRefiresAlarmStep ==
    OpenReadStep =>
        IF /\ conn.enableWritableBytesLimit
           /\ conn.numProbesWritableBytesLimited > 0
           /\ WritableBytesLimitOf(conn) < WritableBytesLimitOf(conn')
        THEN AlarmRefired(conn')
        ELSE /\ conn'.numProbesWritableBytesLimited
                   = conn.numProbesWritableBytesLimited
             /\ conn'.numProbePackets = conn.numProbePackets

ReadRefiresAlarm == [][ReadRefiresAlarmStep]_vars

\* a read has left probe credit
CreditAfterRead == hist.op = "read" /\ AnyProbePackets(conn)

ProbeWritten == hist.op = "writeOpen" /\ ProbeOnWire(conn)

-----------------------------------------------------------------------------
(* The loss-buffer removal model: a lossBuffer filled by                    *)
(* insertIntoLossBuffer with segments that are not in it, and emptied by    *)
(* removeFromLossBuffer called with the range of any frame of the stream.   *)

\* the lost bytes in front of the removed range are not put back
RemoveFromLossBufferDropsSplit(buffer, offset, len, eof) ==
    IF buffer = <<>> \/ len = 0
    THEN buffer
    ELSE LET removedStartOffset == offset
             removedEndOffset == offset + len
             stops == {i \in 1..Len(buffer) :
                         \/ buffer[i].offset > removedEndOffset
                         \/ /\ removedStartOffset >= buffer[i].offset
                            /\ removedEndOffset <= buffer[i].offset + buffer[i].len
                         \/ /\ buffer[i].offset >= removedStartOffset
                            /\ buffer[i].offset + buffer[i].len <= removedEndOffset}
         IN  IF stops = {}
             THEN buffer
             ELSE LET lossItr == CHOOSE i \in stops : \A j \in stops : i <= j
                      lossStartOffset == buffer[lossItr].offset
                      amountToSplit ==
                          IF removedStartOffset > lossStartOffset
                          THEN Min(removedStartOffset - lossStartOffset, buffer[lossItr].len)
                          ELSE 0
                      trimmed == Min(buffer[lossItr].len - amountToSplit, len)
                      rest == [offset |-> lossStartOffset + amountToSplit + trimmed,
                               len |-> buffer[lossItr].len - amountToSplit - trimmed,
                               eof |-> buffer[lossItr].eof]
                  IN  IF lossStartOffset > removedEndOffset
                      THEN buffer
                      ELSE IF rest.len = 0 /\ rest.eof = eof
                           THEN RemoveAt(buffer, lossItr)
                           ELSE [buffer EXCEPT ![lossItr] = rest]

\* QuicStreamLike::removeFromLossBuffer
RemoveFromLossBuffer(buffer, offset, len, eof) ==
    IF buffer = <<>> \/ len = 0
    THEN buffer
    ELSE LET removedStartOffset == offset
             removedEndOffset == offset + len
             \* the entries at which the loop returns
             stops == {i \in 1..Len(buffer) :
                         \/ buffer[i].offset > removedEndOffset
                         \/ /\ removedStartOffset >= buffer[i].offset
                            /\ removedEndOffset <= buffer[i].offset + buffer[i].len
                         \/ /\ buffer[i].offset >= removedStartOffset
                            /\ buffer[i].offset + buffer[i].len <= removedEndOffset}
         IN  IF stops = {}
             THEN buffer
             ELSE LET lossItr == CHOOSE i \in stops : \A j \in stops : i <= j
                      lossStartOffset == buffer[lossItr].offset
                      amountToSplit ==
                          IF removedStartOffset > lossStartOffset
                          THEN Min(removedStartOffset - lossStartOffset, buffer[lossItr].len)
                          ELSE 0
                      trimmed == Min(buffer[lossItr].len - amountToSplit, len)
                      rest == [offset |-> lossStartOffset + amountToSplit + trimmed,
                               len |-> buffer[lossItr].len - amountToSplit - trimmed,
                               eof |-> buffer[lossItr].eof]
                      erased == IF rest.len = 0 /\ rest.eof = eof
                                THEN RemoveAt(buffer, lossItr)
                                ELSE [buffer EXCEPT ![lossItr] = rest]
                  IN  IF lossStartOffset > removedEndOffset
                      THEN buffer
                      ELSE IF amountToSplit > 0
                           THEN InsertIntoLossBuffer(
                                    erased,
                                    [offset |-> lossStartOffset,
                                     len |-> amountToSplit, eof |-> FALSE])
                           ELSE erased

\* the ranges of the frames of the stream: a frame with FIN ends the stream
RemovalRequests ==
    {[offset |-> o, len |-> l, eof |-> e] :
        o \in 0..MaxLossOffset, l \in 0..MaxLossOffset, e \in BOOLEAN}

\* insertions and removals in one run of the removal model
MaxLossOps == 5

RemHist(op, req, before, ops) ==
    [op |-> op, req |-> req, before |-> before, ops |-> ops]

InitLossRemove ==
    /\ conn = NewConn(FALSE, 0, 0)
    /\ hist = RemHist("init", [offset |-> 0, len |-> 0, eof |-> FALSE], <<>>, 0)
    /\ lossBuf = <<>>
    /\ lossBufMetas = <<>>

RemInsert(seg) ==
    /\ hist.ops < MaxLossOps
    /\ IsSegment(seg)
    /\ Positions(seg) \cap BufPositions(SeqToSet(lossBuf)) = {}
    \* nor does the segment span an entry that a removal left empty
    /\ \A i \in 1..Len(lossBuf) :
          ~(seg.offset < lossBuf[i].offset /\ lossBuf[i].offset < seg.offset + seg.len)
    /\ lossBuf' = InsertIntoLossBuffer(lossBuf, seg)
    /\ hist' = RemHist("insert", seg, lossBuf, hist.ops + 1)
    /\ UNCHANGED <<conn, lossBufMetas>>

RemRemove(req) ==
    /\ hist.ops < MaxLossOps
    /\ IsSegment(req)
    /\ lossBuf' = RemoveFromLossBuffer(lossBuf, req.offset, req.len, req.eof)
    /\ hist' = RemHist("remove", req, lossBuf, hist.ops + 1)
    /\ UNCHANGED <<conn, lossBufMetas>>

NextLossRemove ==
    \/ \E seg \in Segments : RemInsert(seg)
    \/ \E req \in RemovalRequests : RemRemove(req)

SpecLossRemove == InitLossRemove /\ [][NextLossRemove]_vars

LostBytes(buffer) == UNION {DataBytes(buffer[i]) : i \in 1..Len(buffer)}

FinPending(buffer) == \E i \in 1..Len(buffer) : buffer[i].eof

OffsetSortedNonOverlapping(buffer) ==
    /\ \A i, j \in 1..Len(buffer) : i < j => buffer[i].offset <= buffer[j].offset
    /\ \A i, j \in 1..Len(buffer) :
          i # j => DataBytes(buffer[i]) \cap DataBytes(buffer[j]) = {}

RemovedRange(req) == req.offset .. (req.offset + req.len - 1)

\* the entries a removal can act on: those that hold the whole range and
\* those that lie within it
Affectable(buffer, req) ==
    {i \in 1..Len(buffer) :
        \/ /\ buffer[i].offset <= req.offset
           /\ req.offset + req.len <= buffer[i].offset + buffer[i].len
        \/ /\ req.offset <= buffer[i].offset
           /\ buffer[i].offset + buffer[i].len <= req.offset + req.len}

RemoveStep ==
    LET req == hist'.req
        affectable == Affectable(lossBuf, req)
    IN  /\ OffsetSortedNonOverlapping(lossBuf')
        /\ IF req.len = 0 \/ affectable = {}
           THEN lossBuf' = lossBuf
           ELSE LET first == CHOOSE i \in affectable : \A j \in affectable : i <= j
                    entry == lossBuf[first]
                IN  /\ LostBytes(lossBuf') =
                          LostBytes(lossBuf) \ (RemovedRange(req) \cap DataBytes(entry))
                    /\ FinPending(lossBuf') =
                          (/\ FinPending(lossBuf)
                           /\ ~(/\ entry.eof /\ req.eof
                                /\ entry.offset + entry.len <= req.offset + req.len))
                    \* one entry more when the range leaves bytes on both sides of it
                    /\ Len(lossBuf') <= Len(lossBuf) + 1

-----------------------------------------------------------------------------
(* The transport-knob model: handleTransportKnobParams called with one      *)
(* knob parameter at a time, for the MAX_PACING_RATE_KNOB and               *)
(* MAX_PACING_RATE_KNOB_SEQUENCED handlers and for a parameter id without   *)
(* a handler.                                                               *)

\* rates are 1..MaxRateBytesPerSec; the largest stands for
\* std::numeric_limits<uint64_t>::max(), the rate that disables pacing
MaxRateBytesPerSec == 3
\* sequence numbers of MAX_PACING_RATE_KNOB_SEQUENCED frames
MaxKnobSeqNum == 2

KnobRates == 1..MaxRateBytesPerSec

\* A server connection as the knob handlers see it.  lastMaxRateBytesPerSec
\* is what the declaration of maxPacingRateKnobState gives it.
NewKnobConn(pacer, lastMaxRateBytesPerSec) ==
    [pacer |-> pacer,
     maxPacingRate |-> MaxRateBytesPerSec,
     maxPacingRateKnobState |->
         [lastMaxRateBytesPerSec |-> lastMaxRateBytesPerSec,
          frameOutOfOrderDetected |-> FALSE],
     maybeLastMaxPacingRateKnobSeqNum |-> None]

\* QuicTransportBase::setMaxPacingRate: the rate goes to the pacer, if any
SetMaxPacingRate(c, maxRateBytesPerSec) ==
    IF c.pacer THEN [c EXCEPT !.maxPacingRate = maxRateBytesPerSec] ELSE c

\* what a handler leaves behind: the connection, whether it threw, and
\* whether it counted the frame as out of order
Handled(c, threw, outOfOrder) == [conn |-> c, threw |-> threw, outOfOrder |-> outOfOrder]

\* the second frame that disables pacing is refused, but the handler goes on
\* with the frames that follow
MaxPacingRateKnobHandlerWithoutLatch(c, val) ==
    LET maxPacingRateKnobState == c.maxPacingRateKnobState
    IN  IF maxPacingRateKnobState.frameOutOfOrderDetected
        THEN Handled(c, TRUE, FALSE)
        ELSE IF /\ maxPacingRateKnobState.lastMaxRateBytesPerSec = MaxRateBytesPerSec
                /\ maxPacingRateKnobState.lastMaxRateBytesPerSec = val
             THEN Handled(c, TRUE, TRUE)
             ELSE Handled([SetMaxPacingRate(c, val) EXCEPT
                              !.maxPacingRateKnobState.lastMaxRateBytesPerSec = val],
                          FALSE, FALSE)

\* the handler registered for TransportKnobParamId::MAX_PACING_RATE_KNOB
MaxPacingRateKnobHandler(c, val) ==
    LET maxPacingRateKnobState == c.maxPacingRateKnobState
    IN  IF maxPacingRateKnobState.frameOutOfOrderDetected
        THEN Handled(c, TRUE, FALSE)
        ELSE IF /\ maxPacingRateKnobState.lastMaxRateBytesPerSec = MaxRateBytesPerSec
                /\ maxPacingRateKnobState.lastMaxRateBytesPerSec = val
             THEN Handled([c EXCEPT
                              !.maxPacingRateKnobState.frameOutOfOrderDetected = TRUE],
                          TRUE, TRUE)
             ELSE Handled([SetMaxPacingRate(c, val) EXCEPT
                              !.maxPacingRateKnobState.lastMaxRateBytesPerSec = val],
                          FALSE, FALSE)

\* the handler registered for MAX_PACING_RATE_KNOB_SEQUENCED, called with a
\* value "{rate},{sequenceNumber}" that parses (wellFormed) or does not.
\* An optional without a value is less than any sequence number.
MaxPacingRateKnobSequencedHandler(c, wellFormed, rateBytesPerSec, seqNum) ==
    IF ~wellFormed
    THEN Handled(c, TRUE, FALSE)
    ELSE IF /\ c.maybeLastMaxPacingRateKnobSeqNum # None
            /\ c.maybeLastMaxPacingRateKnobSeqNum >= seqNum
         THEN Handled(c, TRUE, TRUE)
         ELSE Handled([SetMaxPacingRate(c, rateBytesPerSec) EXCEPT
                          !.maybeLastMaxPacingRateKnobSeqNum = seqNum],
                      FALSE, FALSE)

\* QuicServerTransport::handleTransportKnobParams for one parameter: the
\* statistics callback that is called
KnobStat(handled) == IF handled.threw THEN "onTransportKnobError" ELSE "onTransportKnobApplied"

\* hist.noPacingRun counts the MAX_PACING_RATE_KNOB frames that disable
\* pacing since the last one that did not (up to 2); hist.latchRun is that
\* count at the frame that set frameOutOfOrderDetected
KnobHist(op, val, stat, noPacingRun, latchRun) ==
    [op |-> op, val |-> val, stat |-> stat, noPacingRun |-> noPacingRun,
     latchRun |-> latchRun]

InitKnob ==
    /\ \E pacer \in BOOLEAN : \E last \in KnobRates :
          conn = NewKnobConn(pacer, last)
    /\ hist = KnobHist("init", 0, "none", 0, 0)
    /\ lossBuf = <<>>
    /\ lossBufMetas = <<>>

KnobMaxPacingRate(val) ==
    LET handled == MaxPacingRateKnobHandler(conn, val)
        noPacingRun == IF val = MaxRateBytesPerSec
                       THEN Min(hist.noPacingRun + 1, 2) ELSE 0
    IN  /\ conn' = handled.conn
        /\ hist' = KnobHist("MAX_PACING_RATE_KNOB", val, KnobStat(handled), noPacingRun,
                            IF handled.outOfOrder THEN noPacingRun ELSE hist.latchRun)
        /\ UNCHANGED <<lossBuf, lossBufMetas>>

KnobMaxPacingRateSequenced(wellFormed, rate, seqNum) ==
    LET handled == MaxPacingRateKnobSequencedHandler(conn, wellFormed, rate, seqNum)
    IN  /\ conn' = handled.conn
        /\ hist' = KnobHist("MAX_PACING_RATE_KNOB_SEQUENCED", rate, KnobStat(handled),
                            hist.noPacingRun, hist.latchRun)
        /\ UNCHANGED <<lossBuf, lossBufMetas>>

\* a parameter id no handler is registered for
KnobWithoutHandler ==
    /\ hist' = KnobHist("UNKNOWN", 0, "onTransportKnobError", hist.noPacingRun,
                        hist.latchRun)
    /\ UNCHANGED <<conn, lossBuf, lossBufMetas>>

NextKnob ==
    \/ \E val \in KnobRates : KnobMaxPacingRate(val)
    \/ \E wellFormed \in BOOLEAN : \E rate \in KnobRates : \E seqNum \in 0..MaxKnobSeqNum :
          KnobMaxPacingRateSequenced(wellFormed, rate, seqNum)
    \/ KnobWithoutHandler

SpecKnob == InitKnob /\ [][NextKnob]_vars

OutOfOrderLatched(c) == c.maxPacingRateKnobState.frameOutOfOrderDetected

MaxPacingRateKnobStep ==
    hist'.op = "MAX_PACING_RATE_KNOB" =>
        /\ hist'.noPacingRun = 2 => OutOfOrderLatched(conn')
        /\ IF OutOfOrderLatched(conn')
           THEN \* the frame that latches and every frame after it
                /\ hist'.stat = "onTransportKnobError"
                /\ conn'.maxPacingRate = conn.maxPacingRate
                /\ conn'.maxPacingRateKnobState.lastMaxRateBytesPerSec =
                      conn.maxPacingRateKnobState.lastMaxRateBytesPerSec
           ELSE /\ hist'.stat = "onTransportKnobApplied"
                /\ conn'.maxPacingRateKnobState.lastMaxRateBytesPerSec = hist'.val
                /\ conn.pacer => conn'.maxPacingRate = hist'.val

\* C40: once the MAX_PACING_RATE_KNOB handler has received two consecutive
\* frames that disable pacing, frameOutOfOrderDetected is set and is never
\* reset by any knob frame; the frame that sets it and every later
\* MAX_PACING_RATE_KNOB frame is rejected (the handler throws) and leaves
\* the max pacing rate and the handler's last rate unchanged, while every
\* MAX_PACING_RATE_KNOB frame handled without the latch set is applied: it
\* calls setMaxPacingRate with its value and becomes the last rate.
C40_OutOfOrderLatch ==
    [][/\ OutOfOrderLatched(conn) => OutOfOrderLatched(conn')
       /\ MaxPacingRateKnobStep]_vars

\* a frame with a pacing rate is rejected after the second of two
\* consecutive frames that disable pacing has set the latch, and the pacer
\* still has no limit
C40_Witness ==
    /\ hist.op = "MAX_PACING_RATE_KNOB"
    /\ hist.val < MaxRateBytesPerSec
    /\ hist.noPacingRun = 0
    /\ hist.latchRun = 2
    /\ hist.stat = "onTransportKnobError"
    /\ OutOfOrderLatched(conn)
    /\ conn.pacer
    /\ conn.maxPacingRate = MaxRateBytesPerSec
    /\ conn.maybeLastMaxPacingRateKnobSeqNum = None

====
